---- MODULE Spec2Model ----
(***************************************************************************)
(* Parallel beam-search idiom mining of codescholar                        *)
(* (codescholar/search/parallel_search.py): the coordinator `search`, the  *)
(* worker loop `grow`, the two queues between them, the seed initialisers  *)
(* and the scoring helpers they call.                                      *)
(***************************************************************************)
EXTENDS Integers, Sequences, FiniteSets, TLC

(***************************************************************************)
(* Bounds of the model.                                                    *)
(***************************************************************************)
MaxWorkers == 2        \* args.n_workers ranges over 1..MaxWorkers
MaxBeams == 2          \* args.n_beams ranges over 1..MaxBeams
MaxIdiomSize == 3      \* args.max_idiom_size ranges over 1..MaxIdiomSize
MaxTrials == 1         \* args.n_trials ranges over 0..MaxTrials
MaxBatch == 2          \* args.batch_size ranges over 1..MaxBatch
MaxPool == 3           \* a scored pool holds 0..MaxPool target embeddings
EmbSize == 10          \* width of an embedding vector (emb_size)

(***************************************************************************)
(* Generic helpers on sequences and sets.                                  *)
(***************************************************************************)
Range(s) == {s[i] : i \in 1..Len(s)}

Min(a, b) == IF a <= b THEN a ELSE b

\* s[:k] of Python: the first k elements (all of s when k >= Len(s)).
Prefix(s, k) == SubSeq(s, 1, Min(k, Len(s)))

RECURSIVE SumSeq(_)
SumSeq(s) == IF s = <<>> THEN 0 ELSE Head(s) + SumSeq(Tail(s))

\* torch.cat(emb_batch, dim=0): the rows of a list of embeddings, in order.
RECURSIVE Flatten(_)
Flatten(ss) == IF ss = <<>> THEN <<>> ELSE Head(ss) \o Flatten(Tail(ss))

\* Op applied to the value of v, with v evaluated once.
Bind(v, Op(_)) == CHOOSE r \in {Op(x) : x \in {v}} : TRUE

\* All the orders in which the elements of a finite set can be iterated.
Perms(S) ==
    {p \in [1..Cardinality(S) -> S] : \A i, j \in 1..Cardinality(S) : p[i] = p[j] => i = j}

(***************************************************************************)
(* The corpus: the program graphs read_graph returns.  A graph is a set of *)
(* integer node ids, a set of directed edges, and per node the source span *)
(* (a sequence of characters, "#" marking a hole) and the syntactic type.  *)
(***************************************************************************)
\* x = f(#.z)
Graph1 ==
    [nodes |-> {1, 2, 3, 4},
     edges |-> {<<1, 2>>, <<1, 3>>, <<3, 4>>},
     span |-> (1 :> <<"#", "=", "#">> @@ 2 :> <<"x">> @@ 3 :> <<"f", "(", "#", ")">>
               @@ 4 :> <<"#", ".", "z">>),
     ast_type |-> (1 :> "Assign" @@ 2 :> "Name" @@ 3 :> "Call" @@ 4 :> "Attribute")]

\* an assignment of a three-argument call to an attribute; the call node
\* carries a self-loop
Graph2 ==
    [nodes |-> {1, 2, 3},
     edges |-> {<<1, 2>>, <<1, 3>>, <<2, 2>>},
     span |-> (1 :> <<"#", "=", "#">> @@ 2 :> <<"g", "(", "#", "#", "#", ")">>
               @@ 3 :> <<"#", ".", "#">>),
     ast_type |-> (1 :> "Assign" @@ 2 :> "Call" @@ 3 :> "Attribute")]

\* y[#] = g(#.#): the call and the attribute hang from the assignment, the
\* subscript from the call
Graph3 ==
    [nodes |-> {1, 2, 3, 4},
     edges |-> {<<1, 2>>, <<1, 3>>, <<2, 4>>},
     span |-> (1 :> <<"#", "=", "#">> @@ 2 :> <<"g", "(", "#", ")">>
               @@ 3 :> <<"#", ".", "#">> @@ 4 :> <<"y", "[", "#", "]">>),
     ast_type |-> (1 :> "Assign" @@ 2 :> "Call" @@ 3 :> "Attribute" @@ 4 :> "Subscript")]

\* h(#.b, #.b, k(###)): two attribute nodes with the same span and a call
\* of three arguments under one call
Graph4 ==
    [nodes |-> {1, 2, 3, 4},
     edges |-> {<<1, 2>>, <<1, 3>>, <<1, 4>>},
     span |-> (1 :> <<"h", "(", "#", "#", "#", ")">> @@ 2 :> <<"#", ".", "b">>
               @@ 3 :> <<"#", ".", "b">> @@ 4 :> <<"k", "(", "#", "#", "#", ")">>),
     ast_type |-> (1 :> "Call" @@ 2 :> "Attribute" @@ 3 :> "Attribute" @@ 4 :> "Call")]

\* The programs of the source directory.
Corpus == <<Graph1, Graph2, Graph3, Graph4>>

\* sample_programs: the ids of the programs sampled for a run of search, in
\* order.
prog_indices == <<1, 2>>

read_graph(idx) == Corpus[idx]

\* graph.successors(n) / graph.neighbors(n) and graph.predecessors(n).
successors(graph, n) == {m \in graph.nodes : <<n, m>> \in graph.edges}
predecessors(graph, n) == {m \in graph.nodes : <<m, n>> \in graph.edges}

\* A frontier that takes the outgoing neighbours whatever the type.
FrontierNeighOnly(graph, node, type) == successors(graph, node)

_frontier(graph, node, type) ==
    IF type = "neigh"
    THEN successors(graph, node)
    ELSE successors(graph, node) \cup predecessors(graph, node)

(***************************************************************************)
(* The scoring oracle.  model.encoder is a trained network; it is stood in *)
(* for by an order embedding: one dimension per syntactic type, holding    *)
(* the number of nodes of that type, so that a subgraph never exceeds its  *)
(* supergraph in any dimension.  predictv2 and score_candidate_freq are    *)
(* translated from their code.                                             *)
(***************************************************************************)
TypeDim(t) ==
    CASE t = "Assign" -> 1
      [] t = "Name" -> 2
      [] t = "Call" -> 3
      [] t = "Attribute" -> 4
      [] OTHER -> 5

RECURSIVE EncodeFrom(_, _, _)
EncodeFrom(graph, nodeset, d) ==
    IF d > EmbSize THEN <<>>
    ELSE <<Cardinality({n \in nodeset : TypeDim(graph.ast_type[n]) = d})>>
             \o EncodeFrom(graph, nodeset, d + 1)

encoder(graph, nodeset) == EncodeFrom(graph, nodeset, 1)

\* emb_{idx}.pt: one row per node of the program, the embedding of the
\* node's one-hop neighbourhood.
graph_embedding(graph) ==
    LET row(n) == encoder(graph, {n} \cup _frontier(graph, n, "radial"))
        RECURSIVE rows(_)
        rows(k) == IF k > Cardinality(graph.nodes) THEN <<>> ELSE <<row(k)>> \o rows(k + 1)
    IN rows(1)

read_embedding(idx) == graph_embedding(read_graph(idx))

RECURSIVE read_embeddings(_)
read_embeddings(indices) ==
    IF indices = <<>> THEN <<>>
    ELSE <<read_embedding(Head(indices))>> \o read_embeddings(Tail(indices))

\* predictv2: per target row, 1 when the query exceeds the target in fewer
\* than MAX_VIO_DIMS = int(0.1 * emb_size) dimensions, else 0.
RECURSIVE predictv2(_, _)
predictv2(emb_targets, emb_query) ==
    LET emb_size == Len(emb_query)
        MAX_VIO_DIMS == emb_size \div 10
        indicator_sum(t) == Cardinality({d \in 1..emb_size : emb_query[d] - t[d] > 0})
    IN IF emb_targets = <<>> THEN <<>>
       ELSE <<IF indicator_sum(Head(emb_targets)) < MAX_VIO_DIMS THEN 1 ELSE 0>>
                \o predictv2(Tail(emb_targets), emb_query)

\* The batches the loop of score_candidate_freq visits:
\* range(len(embs) // batch_size).
ScoredBatches(n, batch_size) == 0..((n \div batch_size) - 1)

\* Lines 213-241: the loop over the batches, from batch i on with the score
\* accumulated so far.
RECURSIVE score_loop(_, _, _, _, _)
score_loop(batch_size, embs, cand_emb, i, score) ==
    IF i \notin ScoredBatches(Len(embs), batch_size) THEN score
    ELSE score_loop(batch_size, embs, cand_emb, i + 1,
                    score + Bind(Flatten(SubSeq(embs, i * batch_size + 1, (i + 1) * batch_size)),
                                 LAMBDA emb_batch : SumSeq(predictv2(emb_batch, cand_emb))))

score_candidate_freq(batch_size, embs, cand_emb) ==
    Bind(embs, LAMBDA emb_targets :
        Bind(cand_emb, LAMBDA emb_query :
            score_loop(batch_size, emb_targets, emb_query, 0, 0)))

\* embs of grow, line 251: the target embeddings every worker loads.
worker_embs == read_embeddings(prog_indices)

(***************************************************************************)
(* Beams.  A beam is the tuple                                             *)
(*   (score, holes, neigh, frontier, visited, graph_idx)                   *)
(* of the code.  The frontier is kept as a set: the code builds it with    *)
(* list(set(...)) and iterates it once, so its iteration order is any      *)
(* order of the set, chosen where grow iterates it.                        *)
(***************************************************************************)
\* The ceiling of the hole check in grow.  Line 304 reads the module-level
\* name MAX_HOLES, which no file of the source tree defines; the model gives
\* it a small value.
MAX_HOLES == 2

Beam(score, holes, neigh, frontier, visited, graph_idx) ==
    [score |-> score, holes |-> holes, neigh |-> neigh, frontier |-> frontier,
     visited |-> visited, graph_idx |-> graph_idx]

RECURSIVE count(_, _)
\* str.count: the occurrences of character c in span.
count(span, c) ==
    IF span = <<>> THEN 0
    ELSE (IF Head(span) = c THEN 1 ELSE 0) + count(Tail(span), c)

\* A size test that lets a beam of max_idiom_size nodes grow once more.
SkipBeamLate(beam, max_idiom_size) ==
    Len(beam.neigh) > max_idiom_size \/ beam.frontier = {}

\* A skip test that forgets the size of the beam.
SkipBeamAnySize(beam, max_idiom_size) == beam.frontier = {}

\* grow, line 268: a beam that is not expanded.
SkipBeam(beam, max_idiom_size) ==
    Len(beam.neigh) >= max_idiom_size \/ beam.frontier = {}

\* A hole check that forgets the ceiling.
DropNegativeOnly(new_holes) == new_holes < 0

\* grow, line 304: a candidate that is dropped.
DropCandidate(new_holes) == new_holes < 0 \/ new_holes > MAX_HOLES

\* A growth step whose new frontier forgets to remove the visited nodes.
NewBeamKeepVisited(beam, cand_node, batch_size, embs) ==
    LET graph == read_graph(beam.graph_idx)
        cand_emb == encoder(graph, Range(beam.neigh) \cup {cand_node})
    IN [score |-> score_candidate_freq(batch_size, embs, cand_emb),
        holes |-> beam.holes + count(graph.span[cand_node], "#") - 1,
        neigh |-> Append(beam.neigh, cand_node),
        frontier |-> (beam.frontier \cup _frontier(graph, cand_node, "radial")) \ {cand_node},
        visited |-> beam.visited \cup {cand_node},
        graph_idx |-> beam.graph_idx]

\* A growth step that puts the new node in front of the neighborhood.
NewBeamPrepend(beam, cand_node, batch_size, embs) ==
    LET graph == read_graph(beam.graph_idx)
        cand_emb == encoder(graph, Range(beam.neigh) \cup {cand_node})
    IN [score |-> score_candidate_freq(batch_size, embs, cand_emb),
        holes |-> beam.holes + count(graph.span[cand_node], "#") - 1,
        neigh |-> <<cand_node>> \o beam.neigh,
        frontier |-> ((beam.frontier \cup _frontier(graph, cand_node, "radial"))
                         \ beam.visited) \ {cand_node},
        visited |-> beam.visited \cup {cand_node},
        graph_idx |-> beam.graph_idx]

\* A growth step that keeps the neighborhood in ascending node order.
NewBeamSorted(beam, cand_node, batch_size, embs) ==
    LET graph == read_graph(beam.graph_idx)
        cand_emb == encoder(graph, Range(beam.neigh) \cup {cand_node})
        nodes == Range(beam.neigh) \cup {cand_node}
    IN [score |-> score_candidate_freq(batch_size, embs, cand_emb),
        holes |-> beam.holes + count(graph.span[cand_node], "#") - 1,
        neigh |-> CHOOSE q \in [1..Cardinality(nodes) -> nodes] :
                      \A i \in 1..(Cardinality(nodes) - 1) : q[i] < q[i + 1],
        frontier |-> ((beam.frontier \cup _frontier(graph, cand_node, "radial"))
                         \ beam.visited) \ {cand_node},
        visited |-> beam.visited \cup {cand_node},
        graph_idx |-> beam.graph_idx]

\* grow, lines 285-309: the beam made from `beam` by adding cand_node.
NewBeam(beam, cand_node, batch_size, embs) ==
    LET graph == read_graph(beam.graph_idx)
        cand_emb == encoder(graph, Range(beam.neigh) \cup {cand_node})
        score == score_candidate_freq(batch_size, embs, cand_emb)
        new_neigh == Append(beam.neigh, cand_node)
        new_frontier ==
            ((beam.frontier \cup _frontier(graph, cand_node, "radial")) \ beam.visited)
                \ {cand_node}
        new_visited == beam.visited \cup {cand_node}
        new_holes == beam.holes + count(graph.span[cand_node], "#") - 1
    IN Beam(score, new_holes, new_neigh, new_frontier, new_visited, beam.graph_idx)

\* grow, lines 264-309 for one beam: the new beams appended for it when the
\* frontier is iterated in the order `order`.
RECURSIVE ExpandBeam(_, _, _, _, _)
ExpandBeam(beam, order, max_idiom_size, batch_size, embs) ==
    IF SkipBeam(beam, max_idiom_size) \/ order = <<>> THEN <<>>
    ELSE Bind(NewBeam(beam, Head(order), batch_size, embs),
              LAMBDA new_beam :
                 (IF DropCandidate(new_beam.holes) THEN <<>> ELSE <<new_beam>>)
                    \o ExpandBeam(beam, Tail(order), max_idiom_size, batch_size, embs))

\* The sort key of line 313, score / holes (raw score when holes = 0), as
\* the fraction KeyNum / KeyDen.
KeyNum(beam) == beam.score
KeyDen(beam) == IF beam.holes > 0 THEN beam.holes ELSE 1

\* A ranking by raw score.
ScoreLess(a, b) == a.score < b.score

\* Key of a below key of b.
KeyLess(a, b) == KeyNum(a) * KeyDen(b) < KeyNum(b) * KeyDen(a)

\* A sort without reverse=True: stable, smallest key first.
RECURSIVE InsertBeamAscending(_, _)
InsertBeamAscending(sorted, b) ==
    IF sorted = <<>> THEN <<b>>
    ELSE IF KeyLess(b, Head(sorted)) THEN <<b>> \o sorted
    ELSE <<Head(sorted)>> \o InsertBeamAscending(Tail(sorted), b)

\* sorted(new_beams, key=..., reverse=True): stable, greatest key first.
RECURSIVE InsertBeam(_, _)
InsertBeam(sorted, b) ==
    IF sorted = <<>> THEN <<b>>
    ELSE IF KeyLess(Head(sorted), b) THEN <<b>> \o sorted
    ELSE <<Head(sorted)>> \o InsertBeam(Tail(sorted), b)

\* The first n beams of `beams`, sorted.
RECURSIVE SortPrefix(_, _)
SortPrefix(beams, n) ==
    IF n = 0 THEN <<>>
    ELSE Bind(SortPrefix(beams, n - 1), LAMBDA sorted : InsertBeam(sorted, beams[n]))

\* A sort that leaves the beams in the order they were appended.
KeepOrder(beams) == beams

SortBeams(beams) == SortPrefix(beams, Len(beams))

\* new_beams[:args.n_beams]
TopBeams(beams, n_beams) == Prefix(beams, n_beams)

\* The new_beams a worker can put for beam_set: one outcome per choice of
\* iteration order of each beam's frontier.
RECURSIVE GrowAll(_, _, _, _)
GrowAll(beam_set, max_idiom_size, batch_size, embs) ==
    IF beam_set = <<>> THEN {<<>>}
    ELSE {first \o rest :
            first \in {ExpandBeam(Head(beam_set), order, max_idiom_size, batch_size, embs) :
                         order \in Perms(Head(beam_set).frontier)},
            rest \in GrowAll(Tail(beam_set), max_idiom_size, batch_size, embs)}

GrowResults(beam_set, max_idiom_size, n_beams, batch_size, embs) ==
    {TopBeams(SortBeams(new_beams), n_beams) :
        new_beams \in GrowAll(beam_set, max_idiom_size, batch_size, embs)}

(***************************************************************************)
(* Seed initialisation.                                                    *)
(***************************************************************************)
\* The seed snippets of --mode g that parse to a graph with a non-root
\* node, as the simplified AST get_simplified_ast parses them to: node 0 is
\* the Module root.  "g(_.y)" is a query of two nodes that no program
\* matches.
SeedNames == {"f(_.z)", "_ = _", "q", "g(_.y)"}

\* A snippet that does not parse, and one (the empty snippet) that parses
\* to the Module root alone.
InvalidSeeds == {"x = (", ""}

\* More seed snippets: a call on an attribute, which program 4 has twice,
\* and a call whose node in program 2 carries a self-loop.
MoreSeeds == {"h(_.b, _, _)", "g(_, _, _)"}

\* The value get_simplified_ast returns for a snippet it cannot parse.
None == [none |-> TRUE]

get_simplified_ast(seed) ==
    CASE seed = "x = (" -> None
      [] seed = "" ->
            [nodes |-> {0},
             edges |-> {},
             span |-> (0 :> <<"#">>),
             ast_type |-> (0 :> "Module")]
      [] seed = "h(_.b, _, _)" ->
            [nodes |-> {0, 1, 2},
             edges |-> {<<0, 1>>, <<1, 2>>},
             span |-> (0 :> <<"#">> @@ 1 :> <<"h", "(", "#", "#", "#", ")">>
                       @@ 2 :> <<"#", ".", "b">>),
             ast_type |-> (0 :> "Module" @@ 1 :> "Call" @@ 2 :> "Attribute")]
      [] seed = "g(_, _, _)" ->
            [nodes |-> {0, 1},
             edges |-> {<<0, 1>>},
             span |-> (0 :> <<"#">> @@ 1 :> <<"g", "(", "#", "#", "#", ")">>),
             ast_type |-> (0 :> "Module" @@ 1 :> "Call")]
      [] seed = "g(_.y)" ->
            [nodes |-> {0, 1, 2},
             edges |-> {<<0, 1>>, <<1, 2>>},
             span |-> (0 :> <<"#">> @@ 1 :> <<"g", "(", "#", ")">> @@ 2 :> <<"#", ".", "y">>),
             ast_type |-> (0 :> "Module" @@ 1 :> "Call" @@ 2 :> "Attribute")]
      [] seed = "f(_.z)" ->
            [nodes |-> {0, 1, 2},
             edges |-> {<<0, 1>>, <<1, 2>>},
             span |-> (0 :> <<"#">> @@ 1 :> <<"f", "(", "#", ")">> @@ 2 :> <<"#", ".", "z">>),
             ast_type |-> (0 :> "Module" @@ 1 :> "Call" @@ 2 :> "Attribute")]
      [] seed = "_ = _" ->
            [nodes |-> {0, 1},
             edges |-> {<<0, 1>>},
             span |-> (0 :> <<"#">> @@ 1 :> <<"#", "=", "#">>),
             ast_type |-> (0 :> "Module" @@ 1 :> "Assign")]
      [] OTHER ->
            [nodes |-> {0, 1},
             edges |-> {<<0, 1>>},
             span |-> (0 :> <<"#">> @@ 1 :> <<"q">>),
             ast_type |-> (0 :> "Module" @@ 1 :> "Name")]

\* remove_node: the graph without node nid and its edges.
remove_node(sast, nid) ==
    [nodes |-> sast.nodes \ {nid},
     edges |-> {e \in sast.edges : e[1] # nid /\ e[2] # nid},
     span |-> [n \in sast.nodes \ {nid} |-> sast.span[n]],
     ast_type |-> [n \in sast.nodes \ {nid} |-> sast.ast_type[n]]]

\* A matcher that asks only for the edges of the seed graph to be present
\* (subgraph_monomorphisms_iter).
subgraph_monomorphisms(graph, seed_graph) ==
    {f \in [seed_graph.nodes -> graph.nodes] :
        /\ \A a, b \in seed_graph.nodes : f[a] = f[b] => a = b
        /\ \A a \in seed_graph.nodes :
              /\ graph.span[f[a]] = seed_graph.span[a]
              /\ graph.ast_type[f[a]] = seed_graph.ast_type[a]
        /\ \A a, b \in seed_graph.nodes :
              (<<a, b>> \in seed_graph.edges) => (<<f[a], f[b]>> \in graph.edges)}

\* DiGraphMatcher(graph, seed_graph, node_match).subgraph_isomorphisms_iter():
\* the node-induced subgraphs of graph isomorphic to seed_graph, each as the
\* map from seed node to graph node.
subgraph_isomorphisms(graph, seed_graph) ==
    {f \in [seed_graph.nodes -> graph.nodes] :
        /\ \A a, b \in seed_graph.nodes : f[a] = f[b] => a = b
        /\ \A a \in seed_graph.nodes :
              /\ graph.span[f[a]] = seed_graph.span[a]
              /\ graph.ast_type[f[a]] = seed_graph.ast_type[a]
        /\ \A a, b \in seed_graph.nodes :
              (<<a, b>> \in seed_graph.edges) <=> (<<f[a], f[b]>> \in graph.edges)}

\* init_search_m: n_trials beam sets, each one seed beam at a node of a
\* sampled graph (every graph has positive weight, every node can be drawn).
SeedBeamsM ==
    {Beam(0, 0, <<start_node>>,
          successors(read_graph(graph_idx), start_node) \ {start_node},
          {start_node}, graph_idx) :
        <<graph_idx, start_node>> \in
            UNION {{<<idx, n>> : n \in read_graph(idx).nodes} : idx \in Range(prog_indices)}}

init_search_m(n_trials) == [1..n_trials -> {<<b>> : b \in SeedBeamsM}]

\* init_search_g, lines 159-178, for the programs indices[k..]: every list
\* of beam sets the random choice of a match can give.
RECURSIVE SeedBeamSetsG(_, _, _)
SeedBeamSetsG(indices, k, seed_graph) ==
    IF k > Len(indices) THEN {<<>>}
    ELSE LET idx == indices[k]
             graph == read_graph(idx)
             seed_matches == subgraph_isomorphisms(graph, seed_graph)
             rest == SeedBeamSetsG(indices, k + 1, seed_graph)
             radial(neigh) == UNION {_frontier(graph, n, "radial") : n \in neigh}
         IN IF seed_matches = {} THEN rest
            ELSE {<<<<Beam(0, 0, neigh, radial(Range(neigh)) \ Range(neigh),
                           Range(neigh), idx)>>>> \o r :
                    neigh \in UNION {Perms({f[a] : a \in DOMAIN f}) : f \in seed_matches},
                    r \in rest}

init_search_g(indices, seed) ==
    LET seed_sast == get_simplified_ast(seed)
        seed_graph == remove_node(seed_sast, 0)
    IN SeedBeamSetsG(indices, 1, seed_graph)

(***************************************************************************)
(* Canonical hash.                                                         *)
(***************************************************************************)
\* The masks of vec_hash: random.seed(2019); random.getrandbits(32) yields
\* 3574711592, 663943663, ...; the model keeps two dimensions and the low
\* eight bits of each mask.
cached_masks == <<40, 239>>

RECURSIVE XorBits(_, _)
XorBits(a, b) ==
    IF a = 0 THEN b
    ELSE IF b = 0 THEN a
    ELSE ((a + b) % 2) + 2 * XorBits(a \div 2, b \div 2)

\* a ^ b on non-negative integers.
Xor(a, b) == Bind(a, LAMBDA x : Bind(b, LAMBDA y : XorBits(x, y)))

RECURSIVE VecHashFrom(_, _)
VecHashFrom(v, i) ==
    IF i > Len(cached_masks) THEN <<>>
    ELSE <<Xor(v[i], cached_masks[i])>> \o VecHashFrom(v, i + 1)

\* vec_hash: hash(v[i]) ^ mask per dimension; hash of a small non-negative
\* integer is the integer.
vec_hash(v) == VecHashFrom(v, 1)

\* The nodes of a set in the graph's node order (ascending ids).
RECURSIVE NodeList(_)
NodeList(S) ==
    IF S = {} THEN <<>>
    ELSE Bind(CHOOSE x \in S : \A y \in S : x <= y,
              LAMBDA n : <<n>> \o NodeList(S \ {n}))

RECURSIVE SumAt(_, _, _)
SumAt(vecs, nodes, i) ==
    IF nodes = <<>> THEN 0 ELSE vecs[Head(nodes)][i] + SumAt(vecs, Tail(nodes), i)

RECURSIVE SumVecsFrom(_, _, _)
SumVecsFrom(vecs, nodes, i) ==
    IF i > Len(cached_masks) THEN <<>>
    ELSE <<SumAt(vecs, nodes, i)>> \o SumVecsFrom(vecs, nodes, i + 1)

\* np.sum(vecs[nodes], axis=0) over a sequence of node ids.
SumVecs(vecs, nodes) == SumVecsFrom(vecs, nodes, 1)

\* An initialisation that marks the first node iterated, anchor or not.
RECURSIVE InitVecsFirstNode(_, _, _)
InitVecsFirstNode(g, nodes, marked) ==
    IF nodes = <<>> THEN <<>>
    ELSE (Head(nodes) :> [i \in 1..Len(cached_masks) |-> IF marked THEN 0 ELSE 1])
            @@ InitVecsFirstNode(g, Tail(nodes), TRUE)

\* Lines 253-258: the vector of the first anchor node is all ones, the
\* others all zeros.
RECURSIVE InitVecs(_, _, _)
InitVecs(g, nodes, marked) ==
    IF nodes = <<>> THEN <<>>
    ELSE LET v == Head(nodes)
             first == ~marked /\ g.anchor[v] = 1
         IN (v :> [i \in 1..Len(cached_masks) |-> IF first THEN 1 ELSE 0])
                @@ InitVecs(g, Tail(nodes), marked \/ first)

\* Lines 261-264: one round, the new vector of every node.
RECURSIVE NewVecs(_, _, _)
NewVecs(g, vecs, nodes) ==
    IF nodes = <<>> THEN <<>>
    ELSE Bind(NodeList(successors(g, Head(nodes))) \o <<Head(nodes)>>,
              LAMBDA newvec_nodes :
                 Bind(SumVecs(vecs, newvec_nodes),
                      LAMBDA newvec :
                         (Head(nodes) :> vec_hash(newvec)) @@ NewVecs(g, vecs, Tail(nodes))))

RECURSIVE Rounds(_, _, _)
Rounds(g, vecs, i) ==
    IF i = 0 THEN vecs
    ELSE Bind(NewVecs(g, vecs, NodeList(g.nodes)), LAMBDA newvecs : Rounds(g, newvecs, i - 1))

wl_hash_of(g) ==
    Bind(InitVecs(g, NodeList(g.nodes), FALSE),
         LAMBDA vecs0 :
            Bind(Rounds(g, vecs0, Cardinality(g.nodes)),
                 LAMBDA vecs : SumVecs(vecs, NodeList(g.nodes))))

wl_hash(g) == Bind(g, LAMBDA graph : wl_hash_of(graph))

(***************************************************************************)
(* Persisting a generation (_save_idiom_generation).                       *)
(***************************************************************************)
\* sorted(idiommine_gen.items(), key=len of the list, reverse=True): stable.
RECURSIVE InsertBucket(_, _)
InsertBucket(sorted, b) ==
    IF sorted = <<>> THEN <<b>>
    ELSE IF Len(Head(sorted).idioms) < Len(b.idioms) THEN <<b>> \o sorted
    ELSE <<Head(sorted)>> \o InsertBucket(Tail(sorted), b)

\* The first n buckets of `buckets`, sorted.
RECURSIVE SortBucketPrefix(_, _)
SortBucketPrefix(buckets, n) ==
    IF n = 0 THEN <<>>
    ELSE Bind(SortBucketPrefix(buckets, n - 1),
              LAMBDA sorted : InsertBucket(sorted, buckets[n]))

\* A sort that leaves the buckets in the order they were created.
KeepBucketOrder(buckets) == buckets

SortBuckets(buckets) == SortBucketPrefix(buckets, Len(buckets))

\* The loop of lines 64-83 from bucket `cnt` + 1 on: every store the
\* random.choice of an instance can leave.  A file is named by
\* (len(idiom), count, freq) and holds the chosen idiom.
RECURSIVE SaveBuckets(_, _, _)
SaveBuckets(store, buckets, cnt) ==
    IF cnt >= Len(buckets) THEN {store}
    ELSE LET idioms == buckets[cnt + 1].idioms
             freq == Len(idioms)
         IN UNION {SaveBuckets((<<Cardinality(idiom.nodes), cnt, freq>> :> idiom) @@ store,
                               buckets, cnt + 1) : idiom \in Range(idioms)}

_save_idiom_generation(store, rank, gen_buckets) ==
    Bind(Prefix(SortBuckets(gen_buckets), rank),
         LAMBDA buckets : SaveBuckets(store, buckets, 0))

(***************************************************************************)
(* The state of one run of search.                                         *)
(***************************************************************************)
VARIABLES
    args,           \* the run configuration
    cpc,            \* where the coordinator (search) stands
    beam_sets,      \* search: the beam sets of the current generation
    new_beam_sets,  \* search: the non-empty results collected so far
    idiommine_gen,  \* search: hash -> idioms of the generation, in insertion order
    mine_summary,   \* search: <<size, hash>> -> occurrence count
    size,           \* search: the generation size counter
    sent,           \* search: beam sets put on in_queue in this generation
    collected,      \* search: ids of the results taken in this generation
    tokens,         \* search: "done" tokens put on in_queue
    joined,         \* search: workers joined
    in_queue,       \* the task queue
    out_queue,      \* the result queue
    wpc,            \* per worker: "unstarted", "get", "grow" or "exited"
    task,           \* per worker: the message it took and has not answered
    idiom_store,    \* the idiom files written so far
    generation,     \* number of the generation being dispatched or collected
    call            \* the call of a single function that is in progress, if any

search_vars == <<args, cpc, beam_sets, new_beam_sets, idiommine_gen, mine_summary, size,
                 sent, collected, tokens, joined, in_queue, out_queue, wpc, task,
                 idiom_store, generation>>

vars == <<search_vars, call>>

\* Configuration values the model holds fixed.
MinIdiomSize == 2      \* args.min_idiom_size
Rank == 1              \* args.rank
BatchSize == 1         \* args.batch_size of a search run

Workers == 1..args.n_workers

NoTask == [msg |-> "none"]

\* The configurations of a run of search in the modes whose initialiser
\* the module defines, with a seed that parses.  n_trials is read in mode m
\* only and seed in mode g only; the one not read is held at a single
\* value, and so is keywords, which only mode k reads.
ArgsSpace ==
    {a \in [mode : {"m", "g"}, seed : SeedNames \cup {"None"}, keywords : {"None"},
            n_trials : 0..MaxTrials,
            n_workers : 1..MaxWorkers, n_beams : 1..MaxBeams,
            max_idiom_size : 1..MaxIdiomSize, min_idiom_size : {MinIdiomSize},
            batch_size : {BatchSize}, rank : {Rank}] :
        /\ a.mode = "m" => a.seed = "None"
        /\ a.mode = "g" => a.seed \in SeedNames /\ a.n_trials = 0}

\* No call of a single function is in progress.
NoCall == [fn |-> "none"]

\* search has not begun.
NotStarted ==
    /\ cpc = "init"
    /\ beam_sets = <<>>
    /\ new_beam_sets = <<>>
    /\ idiommine_gen = <<>>
    /\ mine_summary = <<>>
    /\ size = 0
    /\ sent = 0
    /\ collected = <<>>
    /\ tokens = 0
    /\ joined = 0
    /\ in_queue = <<>>
    /\ out_queue = <<>>
    /\ wpc = [w \in Workers |-> "unstarted"]
    /\ task = [w \in Workers |-> NoTask]
    /\ idiom_store = <<>>
    /\ generation = 0

Init ==
    /\ args \in ArgsSpace
    /\ NotStarted
    /\ call = NoCall

(***************************************************************************)
(* The coordinator: search.                                                *)
(***************************************************************************)
\* A test of the beam sets that never returns early.
NeverReturnEarly(sets) == FALSE

\* Line 344, `if not beam_sets`: search returns before it starts a worker.
ReturnEarly(sets) == sets = <<>>

\* Lines 334-349: seed initialisation, the early return on no beam sets,
\* the queues and the start of the workers.  In mode k line 335 calls
\* init_search_k, a name the module neither defines nor imports, which
\* raises NameError; in mode g line 152 raises ValueError when the seed does
\* not parse.  An exception leaves search at once.
SearchInit ==
    /\ cpc = "init"
    /\ IF args.mode = "k"
       THEN /\ cpc' = "NameError"
            /\ UNCHANGED <<beam_sets, wpc, generation, size>>
       ELSE IF args.mode = "g" /\ get_simplified_ast(args.seed) = None
       THEN /\ cpc' = "ValueError"
            /\ UNCHANGED <<beam_sets, wpc, generation, size>>
       ELSE /\ \E bs \in (IF args.mode = "g" THEN init_search_g(prog_indices, args.seed)
                          ELSE init_search_m(args.n_trials)) :
                  /\ beam_sets' = bs
                  /\ IF ReturnEarly(bs)
                     THEN /\ cpc' = "returned"
                          /\ UNCHANGED <<wpc, generation>>
                     ELSE /\ cpc' = "dispatch"
                          /\ wpc' = [w \in Workers |-> "get"]
                          /\ generation' = 1
            /\ size' = 1
    /\ UNCHANGED call
    /\ UNCHANGED <<args, new_beam_sets, idiommine_gen, mine_summary, sent, collected,
                   tokens, joined, in_queue, out_queue, task, idiom_store>>

\* Lines 353-358: one in_queue.put of the dispatch loop; after the last one
\* the generation's bucket and result list are reset.
Dispatch ==
    /\ cpc = "dispatch"
    /\ sent < Len(beam_sets)
    /\ in_queue' = Append(in_queue, [msg |-> "beam_set", beam_set |-> beam_sets[sent + 1],
                                     id |-> <<generation, sent + 1>>])
    /\ sent' = sent + 1
    /\ IF sent + 1 = Len(beam_sets)
       THEN /\ cpc' = "collect"
            /\ idiommine_gen' = <<>>
            /\ new_beam_sets' = <<>>
       ELSE UNCHANGED <<cpc, idiommine_gen, new_beam_sets>>
    /\ UNCHANGED call
    /\ UNCHANGED <<args, beam_sets, mine_summary, size, collected, tokens, joined,
                   out_queue, wpc, task, idiom_store, generation>>

\* A harvest that reads the frontier field of the beam tuple for neigh.
IdiomOfFrontier(new_beam) ==
    LET graph == read_graph(new_beam.graph_idx)
        nodes == new_beam.frontier
    IN [graph_idx |-> new_beam.graph_idx,
        nodes |-> nodes,
        edges |-> {e \in graph.edges : e[1] \in nodes /\ e[2] \in nodes /\ e[1] # e[2]},
        anchor |-> [v \in nodes |-> IF v = new_beam.neigh[1] THEN 1 ELSE 0]]

\* Lines 366-372: the idiom of a beam, its induced subgraph without
\* self-loops, the first node of neigh marked as anchor.
Idiom(new_beam) ==
    LET graph == read_graph(new_beam.graph_idx)
        nodes == Range(new_beam.neigh)
    IN [graph_idx |-> new_beam.graph_idx,
        nodes |-> nodes,
        edges |-> {e \in graph.edges : e[1] \in nodes /\ e[2] \in nodes /\ e[1] # e[2]},
        anchor |-> [v \in nodes |-> IF v = new_beam.neigh[1] THEN 1 ELSE 0]]

\* A harvest that takes every beam of a result.
HarvestEveryBeam(new_beams) == new_beams

\* new_beams[:1], line 364: the beams of a result that are harvested.
HarvestedBeams(new_beams) == Prefix(new_beams, 1)

\* An append that opens a new entry for every idiom.
AddIdiomNewBucket(buckets, hash, idiom) ==
    Append(buckets, [hash |-> hash, idioms |-> <<idiom>>])

\* Line 375: idiommine_gen[hash].append(neigh_g).
AddIdiom(buckets, hash, idiom) ==
    IF \E k \in 1..Len(buckets) : buckets[k].hash = hash
    THEN [k \in 1..Len(buckets) |->
            IF buckets[k].hash = hash
            THEN [buckets[k] EXCEPT !.idioms = Append(@, idiom)]
            ELSE buckets[k]]
    ELSE Append(buckets, [hash |-> hash, idioms |-> <<idiom>>])

\* Line 376: mine_summary[len(neigh_g)][hash] += 1.
CountIdiom(summary, n, hash) ==
    IF <<n, hash>> \in DOMAIN summary
    THEN [summary EXCEPT ![<<n, hash>>] = @ + 1]
    ELSE summary @@ (<<n, hash>> :> 1)

RECURSIVE HarvestBuckets(_, _)
HarvestBuckets(buckets, beams) ==
    IF beams = <<>> THEN buckets
    ELSE Bind(Idiom(Head(beams)),
              LAMBDA neigh_g :
                 Bind(wl_hash(neigh_g),
                      LAMBDA neigh_g_hash :
                         HarvestBuckets(AddIdiom(buckets, neigh_g_hash, neigh_g), Tail(beams))))

RECURSIVE HarvestSummary(_, _)
HarvestSummary(summary, beams) ==
    IF beams = <<>> THEN summary
    ELSE Bind(Idiom(Head(beams)),
              LAMBDA neigh_g :
                 Bind(wl_hash(neigh_g),
                      LAMBDA neigh_g_hash :
                         HarvestSummary(CountIdiom(summary, Cardinality(neigh_g.nodes),
                                                   neigh_g_hash),
                                        Tail(beams))))

\* A collect step that keeps only the beam it harvested.
KeepTopOnly(results, new_beams) ==
    IF Len(new_beams) > 0 THEN Append(results, Prefix(new_beams, 1)) ELSE results

\* A collect step that keeps every result, empty ones included.
KeepEveryResult(results, new_beams) == Append(results, new_beams)

\* A collect step that keeps only the first non-empty result to arrive.
KeepFirstArrival(results, new_beams) ==
    IF Len(new_beams) > 0 /\ results = <<>> THEN <<new_beams>> ELSE results

\* Lines 378-379: the result list after a result is collected.
KeepResult(results, new_beams) ==
    IF Len(new_beams) > 0 THEN Append(results, new_beams) ELSE results

\* A collect loop that stops one result short.
CollectOneLess(sets) == Len(sets) - 1

\* range(len(beam_sets)) of line 360: the results the collect loop takes.
ResultsToCollect(sets) == Len(sets)

\* Lines 360-379: one out_queue.get of the collect loop and its harvest.
Collect ==
    /\ cpc = "collect"
    /\ out_queue # <<>>
    /\ LET result == Head(out_queue)
       IN /\ out_queue' = Tail(out_queue)
          /\ idiommine_gen' = HarvestBuckets(idiommine_gen, HarvestedBeams(result.new_beams))
          /\ mine_summary' = HarvestSummary(mine_summary, HarvestedBeams(result.new_beams))
          /\ new_beam_sets' = KeepResult(new_beam_sets, result.new_beams)
          /\ collected' = Append(collected, result.id)
    /\ cpc' = IF Len(collected) + 1 = ResultsToCollect(beam_sets) THEN "advance"
              ELSE "collect"
    /\ UNCHANGED call
    /\ UNCHANGED <<args, beam_sets, size, sent, tokens, joined, in_queue, wpc, task,
                   idiom_store, generation>>

\* Lines 381-386 and the loop test of line 351.
EndGeneration ==
    /\ cpc = "advance"
    /\ beam_sets' = new_beam_sets
    /\ size' = size + 1
    /\ IF size + 1 >= args.min_idiom_size /\ size + 1 <= args.max_idiom_size
       THEN idiom_store' \in _save_idiom_generation(idiom_store, args.rank, idiommine_gen)
       ELSE idiom_store' = idiom_store
    /\ sent' = 0
    /\ collected' = <<>>
    /\ IF Len(new_beam_sets) # 0
       THEN cpc' = "dispatch" /\ generation' = generation + 1
       ELSE cpc' = "shutdown" /\ generation' = generation
    /\ UNCHANGED call
    /\ UNCHANGED <<args, new_beam_sets, idiommine_gen, mine_summary, tokens, joined,
                   in_queue, out_queue, wpc, task>>

\* A shutdown loop that sends one token too few.
TokenCountOneLess(n_workers) == n_workers - 1

\* range(args.n_workers) of line 388: the number of tokens to send.
TokenCount(n_workers) == n_workers

\* Lines 388-389: one put of a termination token.
PutDone ==
    /\ cpc = "shutdown"
    /\ tokens < TokenCount(args.n_workers)
    /\ in_queue' = Append(in_queue, [msg |-> "done", beam_set |-> <<>>, id |-> <<0, 0>>])
    /\ tokens' = tokens + 1
    /\ cpc' = IF tokens + 1 = TokenCount(args.n_workers) THEN "join" ELSE "shutdown"
    /\ UNCHANGED call
    /\ UNCHANGED <<args, beam_sets, new_beam_sets, idiommine_gen, mine_summary, size,
                   sent, collected, joined, out_queue, wpc, task, idiom_store, generation>>

\* Lines 391-394: worker.join() of the next worker, and the return after
\* the last one.
Join ==
    /\ cpc = "join"
    /\ joined < args.n_workers
    /\ wpc[joined + 1] = "exited"
    /\ joined' = joined + 1
    /\ cpc' = IF joined + 1 = args.n_workers THEN "returned" ELSE "join"
    /\ UNCHANGED call
    /\ UNCHANGED <<args, beam_sets, new_beam_sets, idiommine_gen, mine_summary, size,
                   sent, collected, tokens, in_queue, out_queue, wpc, task, idiom_store,
                   generation>>

(***************************************************************************)
(* The workers: grow.                                                      *)
(***************************************************************************)
\* Lines 254-259: in_queue.get(); a "done" token ends the worker.
WorkerGet(w) ==
    /\ w \in Workers
    /\ wpc[w] = "get"
    /\ in_queue # <<>>
    /\ in_queue' = Tail(in_queue)
    /\ IF Head(in_queue).msg = "done"
       THEN /\ wpc' = [wpc EXCEPT ![w] = "exited"]
            /\ UNCHANGED task
       ELSE /\ wpc' = [wpc EXCEPT ![w] = "grow"]
            /\ task' = [task EXCEPT ![w] = Head(in_queue)]
    /\ UNCHANGED call
    /\ UNCHANGED <<args, cpc, beam_sets, new_beam_sets, idiommine_gen, mine_summary,
                   size, sent, collected, tokens, joined, out_queue, idiom_store,
                   generation>>

\* A worker that answers only when some beam was grown.
ReplyUnlessEmpty(new_beams, id) ==
    IF new_beams = <<>> THEN <<>>
    ELSE <<[msg |-> "complete", new_beams |-> new_beams, id |-> id]>>

\* Line 327: the messages a worker puts for a task it has grown.
Reply(new_beams, id) == <<[msg |-> "complete", new_beams |-> new_beams, id |-> id]>>

\* Lines 261-327: the expansion of the task's beam set and the reply.
WorkerPut(w) ==
    /\ w \in Workers
    /\ wpc[w] = "grow"
    /\ wpc' = [wpc EXCEPT ![w] = "get"]
    /\ task' = [task EXCEPT ![w] = NoTask]
    /\ \E new_beams \in GrowResults(task[w].beam_set, args.max_idiom_size, args.n_beams,
                                    args.batch_size, worker_embs) :
          out_queue' = out_queue \o Reply(new_beams, task[w].id)
    /\ UNCHANGED call
    /\ UNCHANGED <<args, cpc, beam_sets, new_beam_sets, idiommine_gen, mine_summary,
                   size, sent, collected, tokens, joined, in_queue, idiom_store,
                   generation>>

Next ==
    \/ SearchInit
    \/ Dispatch
    \/ EndGeneration
    \/ PutDone
    \/ Join
    \/ \E w \in Workers : WorkerGet(w)
    \/ Collect
    \/ \E w \in Workers : WorkerPut(w)

Spec == Init /\ [][Next]_vars

\* The processes keep running: while some process can take a step, a step is
\* eventually taken.
FairSpec == Spec /\ WF_vars(Next)

(***************************************************************************)
(* Runs of search in which a worker process can die while it grows a task. *)
(* grow has no exception handler and search does not watch its workers: a  *)
(* worker that dies holds the message it took from in_queue, which         *)
(* in_queue.get() of line 254 had removed from the queue.                  *)
(***************************************************************************)
\* A death that hands the task back to the task queue.
RequeueTask(queue, t) == Append(queue, t)

\* in_queue after the worker holding task t died: the queue is untouched.
AfterDeath(queue, t) == queue

\* The worker dies between lines 254 and 327: nothing is put on out_queue.
WorkerDie(w) ==
    /\ w \in Workers
    /\ wpc[w] = "grow"
    /\ wpc' = [wpc EXCEPT ![w] = "dead"]
    /\ in_queue' = AfterDeath(in_queue, task[w])
    /\ UNCHANGED call
    /\ UNCHANGED <<args, cpc, beam_sets, new_beam_sets, idiommine_gen, mine_summary,
                   size, sent, collected, tokens, joined, out_queue, task, idiom_store,
                   generation>>

CrashNext ==
    \/ SearchInit
    \/ Dispatch
    \/ EndGeneration
    \/ PutDone
    \/ Join
    \/ \E w \in Workers : WorkerGet(w)
    \/ Collect
    \/ \E w \in Workers : WorkerPut(w)
    \/ \E w \in Workers : WorkerDie(w)

SpecCrash == Init /\ [][CrashNext]_vars

(***************************************************************************)
(* Runs of search from given initial beam sets: call holds the beam sets   *)
(* that seed initialisation returns.                                       *)
(***************************************************************************)
SeedInit ==
    /\ args \in ArgsSpace
    /\ NotStarted
    /\ call \in [fn : {"search"},
                 beam_sets : IF args.mode = "g" THEN init_search_g(prog_indices, args.seed)
                             ELSE init_search_m(args.n_trials)]

\* Lines 334-349 when init_search_m / init_search_g return call.beam_sets.
SearchFromSeeds ==
    /\ call.fn = "search"
    /\ SearchInit
    /\ beam_sets' = call.beam_sets

SeedNext ==
    \/ SearchFromSeeds
    \/ Dispatch
    \/ EndGeneration
    \/ PutDone
    \/ Join
    \/ \E w \in Workers : WorkerGet(w)
    \/ Collect
    \/ \E w \in Workers : WorkerPut(w)

SpecSeeds == SeedInit /\ [][SeedNext]_vars

(***************************************************************************)
(* Runs of main over every configuration the command line can give: each   *)
(* mode, the seed and the keywords present or absent, a seed that parses   *)
(* or not.  call holds the position of main.                               *)
(***************************************************************************)
MainArgsSpace ==
    {a \in [mode : {"m", "g", "k"}, seed : SeedNames \cup InvalidSeeds \cup {"None"},
            keywords : {"None", "z"}, n_trials : 0..MaxTrials,
            n_workers : 1..MaxWorkers, n_beams : 1..MaxBeams,
            max_idiom_size : 1..MaxIdiomSize,
            min_idiom_size : MinIdiomSize..(MinIdiomSize + 1),
            batch_size : {BatchSize}, rank : {Rank}] :
        /\ a.mode = "m" => a.seed = "None" /\ a.keywords = "None"
        /\ a.mode = "g" => a.keywords = "None" /\ a.n_trials = 0
        /\ a.mode = "k" => a.seed = "None" /\ a.n_trials = 0}

MainInit ==
    /\ args \in MainArgsSpace
    /\ NotStarted
    /\ call = [fn |-> "main", pc |-> "check"]

\* Lines 398-407: parser.error prints the usage and exits; otherwise the
\* programs are sampled and the model is built.
MainCheck ==
    /\ call.fn = "main"
    /\ call.pc = "check"
    /\ call' = [call EXCEPT !.pc = IF args.mode = "g" /\ args.seed = "None"
                                   THEN "parser.error" ELSE "search"]
    /\ UNCHANGED search_vars

\* Line 410: the call of search.
MainSearch ==
    /\ call.fn = "main"
    /\ call.pc = "search"
    /\ SearchInit

\* Lines 410-411: search has returned and the summary is written.
MainReturn ==
    /\ call.fn = "main"
    /\ call.pc = "search"
    /\ cpc = "returned"
    /\ call' = [call EXCEPT !.pc = "done"]
    /\ UNCHANGED search_vars

MainNext ==
    \/ MainCheck
    \/ MainSearch
    \/ MainReturn
    \/ Dispatch
    \/ EndGeneration
    \/ PutDone
    \/ Join
    \/ \E w \in Workers : WorkerGet(w)
    \/ Collect
    \/ \E w \in Workers : WorkerPut(w)

SpecMain == MainInit /\ [][MainNext]_vars

(***************************************************************************)
(* One call of score_candidate_freq on a pool of target embeddings.        *)
(***************************************************************************)
\* A program of a single Name node.
NameGraph ==
    [nodes |-> {1}, edges |-> {}, span |-> (1 :> <<"x">>), ast_type |-> (1 :> "Name")]

\* The embeddings a pool is drawn from, one per program, and the candidate
\* embeddings scored against it.
PoolEmbeddings == {graph_embedding(graph) : graph \in Range(Corpus) \cup {NameGraph}}
CandidateEmbeddings ==
    UNION {{encoder(read_graph(idx), {n}) : n \in read_graph(idx).nodes} :
             idx \in Range(prog_indices)}

ScoreArgsSpace == {a \in ArgsSpace : a.mode = "m" /\ a.n_trials = 0 /\ a.n_workers = 1
                                     /\ a.n_beams = 1 /\ a.max_idiom_size = 1}

ScoreInit ==
    /\ \E a \in ScoreArgsSpace, batch_size \in 1..MaxBatch :
          args = [a EXCEPT !.batch_size = batch_size]
    /\ NotStarted
    /\ \E n \in 0..MaxPool :
          call \in [fn : {"score_candidate_freq"}, embs : [1..n -> PoolEmbeddings],
                    cand_emb : CandidateEmbeddings, returned : {FALSE}, score : {0}]

\* Lines 224-246: the call runs to its return.
ScoreCandidate ==
    /\ call.fn = "score_candidate_freq"
    /\ ~call.returned
    /\ call' = [call EXCEPT !.returned = TRUE,
                            !.score = score_candidate_freq(args.batch_size, call.embs,
                                                           call.cand_emb)]
    /\ UNCHANGED search_vars

ScoreNext == ScoreCandidate

SpecScore == ScoreInit /\ [][ScoreNext]_vars

(***************************************************************************)
(* One pass of the loop body of grow on a task, in a run whose sample is   *)
(* the whole source directory.                                             *)
(***************************************************************************)
GrowDepth == 2         \* tasks of generations 1..GrowDepth + 1 are grown

\* prog_indices and embs of the worker in such a run.
grow_indices == <<1, 2, 3>>
grow_embs == read_embeddings(grow_indices)

\* init_search_m, lines 130-142: the seed beam sets such a run can start
\* from, one seed beam at a node of a sampled program.
GrowSeeds ==
    {<<Beam(0, 0, <<start_node>>,
            successors(read_graph(graph_idx), start_node) \ {start_node},
            {start_node}, graph_idx)>> :
        <<graph_idx, start_node>> \in
            UNION {{<<idx, n>> : n \in read_graph(idx).nodes} : idx \in Range(grow_indices)}}

\* The beam sets search dispatches in the first d + 1 generations under
\* configuration a: the seeds, and the non-empty results of the tasks of
\* the generation before (lines 378-381).
RECURSIVE GrowTasks(_, _)
GrowTasks(a, d) ==
    IF d = 0 THEN GrowSeeds
    ELSE LET prev == GrowTasks(a, d - 1)
         IN prev \cup
            (UNION {GrowResults(beam_set, a.max_idiom_size, a.n_beams, a.batch_size,
                                grow_embs) : beam_set \in prev} \ {<<>>})

GrowInit ==
    /\ \E a \in ScoreArgsSpace, batch_size \in 1..MaxBatch, n_beams \in 1..MaxBeams,
          max_idiom_size \in 1..MaxIdiomSize :
          args = [a EXCEPT !.batch_size = batch_size, !.n_beams = n_beams,
                           !.max_idiom_size = max_idiom_size]
    /\ NotStarted
    /\ call \in [fn : {"grow"}, beam_set : GrowTasks(args, GrowDepth),
                 returned : {FALSE}, new_beams : {<<>>}]

\* Lines 261-327: the task's beam set is expanded, sorted and truncated.
GrowTask ==
    /\ call.fn = "grow"
    /\ ~call.returned
    /\ \E new_beams \in GrowResults(call.beam_set, args.max_idiom_size, args.n_beams,
                                    args.batch_size, grow_embs) :
          call' = [call EXCEPT !.returned = TRUE, !.new_beams = new_beams]
    /\ UNCHANGED search_vars

GrowNext == GrowTask

SpecGrow == GrowInit /\ [][GrowNext]_vars

(***************************************************************************)
(* One call of wl_hash on a graph with one anchor-marked node.             *)
(***************************************************************************)
MaxHashNodes == 3      \* a hashed graph has 1..MaxHashNodes nodes
MaxHashEdges == 3      \* and at most MaxHashEdges edges

\* The graphs hashed: nodes 1..n, any edges between distinct nodes (search
\* removes self-loops at line 369), one node marked as anchor.
HashGraphs ==
    UNION {{[nodes |-> 1..n, edges |-> E,
             anchor |-> [v \in 1..n |-> IF v = a THEN 1 ELSE 0]] :
              a \in 1..n,
              E \in {X \in SUBSET {e \in (1..n) \X (1..n) : e[1] # e[2]} :
                        Cardinality(X) <= MaxHashEdges}} :
           n \in 1..MaxHashNodes}

HashInit ==
    /\ args \in ScoreArgsSpace
    /\ NotStarted
    /\ call \in [fn : {"wl_hash"}, g : HashGraphs, returned : {FALSE}, hash : {<<>>}]

\* Lines 250-266: the call runs to its return.
WlHash ==
    /\ call.fn = "wl_hash"
    /\ ~call.returned
    /\ call' = [call EXCEPT !.returned = TRUE, !.hash = wl_hash(call.g)]
    /\ UNCHANGED search_vars

HashNext == WlHash

SpecHash == HashInit /\ [][HashNext]_vars

(***************************************************************************)
(* One call of _save_idiom_generation on the buckets of a generation.      *)
(***************************************************************************)
MaxSaveIdioms == 3     \* a generation harvested 0..MaxSaveIdioms idioms
MaxRank == 2           \* args.rank ranges over 1..MaxRank

\* The orders in which growth can have added n nodes of a graph: every
\* node after the first is a radial neighbour of an earlier one.
GrowthOrders(graph, n) ==
    {neigh \in [1..n -> graph.nodes] :
        /\ \A i, j \in 1..n : neigh[i] = neigh[j] => i = j
        /\ \A i \in 2..n : \E j \in 1..(i - 1) :
              neigh[i] \in _frontier(graph, neigh[j], "radial")}

\* The idioms of MaxIdiomSize nodes that can be harvested from the first
\* program.
SaveIdioms ==
    {Idiom([neigh |-> neigh, graph_idx |-> 1]) :
        neigh \in GrowthOrders(read_graph(1), MaxIdiomSize)}

\* idiommine_gen after the idioms[1..n] were harvested in this order
\* (lines 374-375).
RECURSIVE BucketsOf(_, _)
BucketsOf(idioms, n) ==
    IF n = 0 THEN <<>>
    ELSE Bind(BucketsOf(idioms, n - 1),
              LAMBDA buckets : AddIdiom(buckets, wl_hash(idioms[n]), idioms[n]))

SaveInit ==
    /\ \E a \in ScoreArgsSpace, rank \in 1..MaxRank : args = [a EXCEPT !.rank = rank]
    /\ NotStarted
    /\ \E n \in 0..MaxSaveIdioms : \E idioms \in [1..n -> SaveIdioms] :
          call = [fn |-> "_save_idiom_generation", idiommine_gen |-> BucketsOf(idioms, n),
                  returned |-> FALSE, store |-> <<>>]

\* Lines 58-83: the call runs to its return; store holds the files written.
SaveGeneration ==
    /\ call.fn = "_save_idiom_generation"
    /\ ~call.returned
    /\ \E store \in _save_idiom_generation(<<>>, args.rank, call.idiommine_gen) :
          call' = [call EXCEPT !.returned = TRUE, !.store = store]
    /\ UNCHANGED search_vars

SaveNext == SaveGeneration

SpecSave == SaveInit /\ [][SaveNext]_vars

(***************************************************************************)
(* One call of init_search_g on a sample of the source directory.          *)
(* sample_programs draws with replacement, so a program can be sampled     *)
(* more than once.                                                         *)
(***************************************************************************)
MaxSample == 2         \* prog_indices holds 0..MaxSample program ids

SeedGInit ==
    /\ args \in ScoreArgsSpace
    /\ NotStarted
    /\ \E n \in 0..MaxSample :
          call \in [fn : {"init_search_g"}, prog_indices : [1..n -> 1..Len(Corpus)],
                    seed : SeedNames \cup MoreSeeds \cup InvalidSeeds,
                    returned : {FALSE}, raised : {"none"}, beam_sets : {<<>>}]

\* Lines 147-180: the call runs to its return, or raises at line 152.
InitSearchG ==
    /\ call.fn = "init_search_g"
    /\ ~call.returned
    /\ IF get_simplified_ast(call.seed) = None
       THEN call' = [call EXCEPT !.returned = TRUE, !.raised = "ValueError"]
       ELSE \E bs \in init_search_g(call.prog_indices, call.seed) :
               call' = [call EXCEPT !.returned = TRUE, !.beam_sets = bs]
    /\ UNCHANGED search_vars

SeedGNext == InitSearchG

SpecSeedG == SeedGInit /\ [][SeedGNext]_vars

(***************************************************************************)
(* One pass of the loop body of grow on a seed task, for any scores the    *)
(* trained network can give: call.oracle holds, per candidate node, the    *)
(* score score_candidate_freq returns for it.                              *)
(***************************************************************************)
MaxScore == 2          \* a candidate's score ranges over 0..MaxScore

\* init_search_m, lines 130-142: a seed task at a node of any program.
OracleSeeds ==
    {<<Beam(0, 0, <<start_node>>,
            successors(read_graph(graph_idx), start_node) \ {start_node},
            {start_node}, graph_idx)>> :
        <<graph_idx, start_node>> \in
            UNION {{<<idx, n>> : n \in read_graph(idx).nodes} : idx \in 1..Len(Corpus)}}

\* Line 285: the candidates with the score the oracle gives each.
Rescore(new_beams, oracle) ==
    [i \in 1..Len(new_beams) |->
        [new_beams[i] EXCEPT !.score = oracle[new_beams[i].neigh[Len(new_beams[i].neigh)]]]]

OracleInit ==
    /\ \E a \in ScoreArgsSpace, n_beams \in 1..MaxBeams :
          args = [a EXCEPT !.n_beams = n_beams, !.max_idiom_size = MaxIdiomSize]
    /\ NotStarted
    /\ \E beam_set \in OracleSeeds :
          call \in [fn : {"grow"}, beam_set : {beam_set},
                    oracle : [beam_set[1].frontier -> 0..MaxScore],
                    returned : {FALSE}, appended : {<<>>}, new_beams : {<<>>}]

\* Lines 261-327: the candidates are appended in the order the frontier is
\* iterated, then sorted and truncated.
GrowWithOracle ==
    /\ call.fn = "grow"
    /\ ~call.returned
    /\ \E new_beams \in GrowAll(call.beam_set, args.max_idiom_size, args.batch_size,
                                 grow_embs) :
          LET appended == Rescore(new_beams, call.oracle)
          IN call' = [call EXCEPT !.returned = TRUE, !.appended = appended,
                                  !.new_beams = TopBeams(SortBeams(appended), args.n_beams)]
    /\ UNCHANGED search_vars

OracleNext == GrowWithOracle

SpecOracle == OracleInit /\ [][OracleNext]_vars

(***************************************************************************)
(* The frequency-style miner (mining/code_farming/code_farming_fast.py):   *)
(* one call of codescholar_codefarmer.  A MinedIdiom is the record         *)
(* (idiom, start, end); the AST it holds is kept as the sequence of the    *)
(* <<start, end>> extents of the statements combined in it.  mined_results *)
(* maps node count -> file id -> idioms; the list of a file is kept as a   *)
(* set, its order being the iteration order of the set of single           *)
(* statements.  grow_idiom and subgraph_matches live outside the source    *)
(* tree: call.outcome says, per end line of the statement added, whether   *)
(* the combination is grown and frequent ("grown"), grow_idiom raises      *)
(* ("raises"), or the match count is below gamma**(1/node_count) ("rare"). *)
(***************************************************************************)
MaxFiles == 2          \* the dataset holds 1..MaxFiles programs
MaxLine == 2           \* a program has lines 1..MaxLine
MaxStmts == 2          \* the dataset has at most MaxStmts frequent statements
MaxLen == 2            \* max_len when fix_max_len is set

MAX_WORKERS == 10

MinedIdiom(idiom, start, end) == [idiom |-> idiom, start |-> start, end |-> end]

\* grow_idiom(idiom.idiom, prog.idiom) when it returns a combination.
grow_idiom(idiom, prog) == idiom \o prog

\* save_idiom, lines 79-92.
save_idiom(mined_results, candidate_idiom, loc, nodecount, fileid) ==
    LET new_idiom == MinedIdiom(candidate_idiom, loc[1], loc[2])
    IN IF nodecount \notin DOMAIN mined_results
       THEN mined_results @@ (nodecount :> (fileid :> {new_idiom}))
       ELSE IF fileid \notin DOMAIN mined_results[nodecount]
       THEN [mined_results EXCEPT ![nodecount] = @ @@ (fileid :> {new_idiom})]
       ELSE [mined_results EXCEPT ![nodecount][fileid] = @ \cup {new_idiom}]

\* A test that lets any statement follow.
AnyOrder(prog, idiom) == FALSE

\* Line 113, `if prog.end <= idiom.end: continue`.
UnnaturalOrder(prog, idiom) == prog.end <= idiom.end

\* Lines 104-123 and 126-129: the pairs (idiom, prog) of a file whose
\* combination is made by pass 1 and kept by pass 2.
KeptCandidates(mined_results, node_count, fileid, outcome) ==
    {pair \in mined_results[node_count][fileid] \X mined_results[1][fileid] :
        /\ ~UnnaturalOrder(pair[2], pair[1])
        /\ outcome[pair[2].end] # "raises"
        /\ outcome[pair[2].end] # "rare"}

\* Lines 126-133: the kept candidates are saved one by one.
RECURSIVE SaveCandidates(_, _, _, _)
SaveCandidates(mined_results, pairs, node_count, fileid) ==
    IF pairs = {} THEN mined_results
    ELSE LET pair == CHOOSE x \in pairs : TRUE
             idiom == pair[1]
             prog == pair[2]
         IN SaveCandidates(save_idiom(mined_results, grow_idiom(idiom.idiom, prog.idiom),
                                      <<idiom.start, prog.end>>, node_count + 1, fileid),
                           pairs \ {pair}, node_count, fileid)

\* filewise_code_miner, lines 101-137.
filewise_code_miner(mined_results, node_count, fileid, outcome) ==
    SaveCandidates(mined_results,
                   KeptCandidates(mined_results, node_count, fileid, outcome),
                   node_count, fileid)

\* mined_results[node_count].keys(): the file ids in insertion order, which
\* is ascending, as a sequence.
RECURSIVE FileIds(_)
FileIds(S) ==
    IF S = {} THEN <<>>
    ELSE LET f == CHOOSE x \in S : \A y \in S : x <= y
         IN <<f>> \o FileIds(S \ {f})

\* Lines 185-188: one call per file on the shared dictionary.
RECURSIVE SerialBranch(_, _, _, _)
SerialBranch(mined_results, node_count, file_ids, outcome) ==
    IF file_ids = <<>> THEN mined_results
    ELSE SerialBranch(filewise_code_miner(mined_results, node_count, Head(file_ids), outcome),
                      node_count, Tail(file_ids), outcome)

\* Lines 168-183: every task is handed the dictionary as it is before the
\* generation and returns its own copy; the loop over the results assigns
\* each successful one to mined_results.
RECURSIVE ParallelBranch(_, _, _, _, _)
ParallelBranch(mined_results, tasks_input, node_count, file_ids, outcome) ==
    IF file_ids = <<>> THEN mined_results
    ELSE ParallelBranch(filewise_code_miner(tasks_input, node_count, Head(file_ids), outcome),
                        tasks_input, node_count, Tail(file_ids), outcome)

\* The frequent single statements get_single_nodes can return for the
\* programs of a dataset (lines 155-158): per file a set of statements,
\* each with its first and last line.
Datasets ==
    UNION {{d \in [1..n -> SUBSET {MinedIdiom(<<<<l[1], l[2]>>>>, l[1], l[2]) :
                                     l \in {x \in (1..MaxLine) \X (1..MaxLine) : x[1] <= x[2]}}] :
               SumSeq([f \in 1..n |-> Cardinality(d[f])]) <= MaxStmts} :
           n \in 1..MaxFiles}

FarmInit ==
    /\ args \in ScoreArgsSpace
    /\ NotStarted
    /\ \E d \in Datasets :
          call \in [fn : {"codescholar_codefarmer"}, pc : {"loop"}, node_count : {1},
                    mined_results : {1 :> d},
                    outcome : [1..MaxLine -> {"grown", "raises", "rare"}],
                    gamma_below_1 : BOOLEAN,
                    fix_max_len : BOOLEAN, max_len : {0, MaxLen}]
    /\ call.fix_max_len = (call.max_len = MaxLen)
    /\ call.gamma_below_1 => ~call.fix_max_len

\* Lines 160-200: one pass of the while loop.  gamma**(1 / node_count) is
\* below 1 exactly when gamma is.
FarmGeneration ==
    /\ call.fn = "codescholar_codefarmer"
    /\ call.pc = "loop"
    /\ call.node_count \in DOMAIN call.mined_results
    /\ LET file_ids == FileIds(DOMAIN call.mined_results[call.node_count])
           mined_results ==
               IF MAX_WORKERS > 1
               THEN ParallelBranch(call.mined_results, call.mined_results, call.node_count,
                                   file_ids, call.outcome)
               ELSE SerialBranch(call.mined_results, call.node_count, file_ids,
                                 call.outcome)
           node_count == call.node_count + 1
       IN call' = [call EXCEPT !.mined_results = mined_results,
                               !.node_count = node_count,
                               !.pc = IF (call.fix_max_len /\ node_count > call.max_len)
                                         \/ call.gamma_below_1
                                      THEN "returned" ELSE "loop"]
    /\ UNCHANGED search_vars

\* Line 160 when node_count is not a key, and the return of line 202.
FarmReturn ==
    /\ call.fn = "codescholar_codefarmer"
    /\ call.pc = "loop"
    /\ call.node_count \notin DOMAIN call.mined_results
    /\ call' = [call EXCEPT !.pc = "returned"]
    /\ UNCHANGED search_vars

FarmNext ==
    \/ FarmGeneration
    \/ FarmReturn

SpecFarm == FarmInit /\ [][FarmNext]_vars

\* The call keeps running until it returns.
FairFarm == SpecFarm /\ WF_vars(FarmNext)

(***************************************************************************)
(* read_embeddings_batched (utils/search_utils.py, lines 213-232): one     *)
(* call, one loop pass per step.  call.i is the loop index (from 0),       *)
(* call.lens the lengths of batch_embs that were added to count, one per   *)
(* batch appended to embs.                                                 *)
(***************************************************************************)
MaxIndices == 3        \* prog_indices holds 0..MaxIndices programs

\* torch.cat(batch_embs, dim=0): the rows of the tensors, one after another.
torch_cat(batch_embs) == Flatten(batch_embs)

\* Line 218, `if i > 0 and i % args.batch_size == 0`.
BatchFull(i, batch_size) == i > 0 /\ i % batch_size = 0

BatchInit ==
    /\ \E a \in ScoreArgsSpace, batch_size \in 1..MaxBatch :
          args = [a EXCEPT !.batch_size = batch_size]
    /\ NotStarted
    /\ \E n \in 0..MaxIndices :
          call \in [fn : {"read_embeddings_batched"},
                    prog_indices : [1..n -> 1..Len(Corpus)],
                    i : {0}, batch_embs : {<<>>}, embs : {<<>>}, lens : {<<>>},
                    count : {0}, returned : {FALSE}, raised : {"none"}]

\* Lines 216-221: one pass of the loop.
ReadOneEmbedding ==
    /\ call.fn = "read_embeddings_batched"
    /\ ~call.returned
    /\ call.i < Len(call.prog_indices)
    /\ LET idx == call.prog_indices[call.i + 1]
           batch_embs == Append(call.batch_embs, read_embedding(idx))
       IN IF BatchFull(call.i, args.batch_size)
          THEN call' = [call EXCEPT !.i = @ + 1,
                                    !.embs = Append(@, torch_cat(batch_embs)),
                                    !.lens = Append(@, Len(batch_embs)),
                                    !.count = @ + Len(batch_embs),
                                    !.batch_embs = <<>>]
          ELSE call' = [call EXCEPT !.i = @ + 1, !.batch_embs = batch_embs]
    /\ UNCHANGED search_vars

\* Lines 223-232: the remaining embeddings make the last batch, the count is
\* asserted and the batches are returned.
ReturnBatches ==
    /\ call.fn = "read_embeddings_batched"
    /\ ~call.returned
    /\ call.i = Len(call.prog_indices)
    /\ LET rest == Len(call.batch_embs) > 0
           embs == IF rest THEN Append(call.embs, torch_cat(call.batch_embs)) ELSE call.embs
           lens == IF rest THEN Append(call.lens, Len(call.batch_embs)) ELSE call.lens
           total == call.count + Len(call.batch_embs)
       IN call' = [call EXCEPT !.embs = embs, !.lens = lens, !.count = total,
                               !.batch_embs = IF rest THEN <<>> ELSE @,
                               !.returned = TRUE,
                               !.raised = IF total = Len(call.prog_indices)
                                          THEN "none" ELSE "AssertionError"]
    /\ UNCHANGED search_vars

BatchNext ==
    \/ ReadOneEmbedding
    \/ ReturnBatches

SpecBatch == BatchInit /\ [][BatchNext]_vars

(***************************************************************************)
(* Views of the state used by the properties.                              *)
(***************************************************************************)
QueuedTasks == {i \in 1..Len(in_queue) : in_queue[i].msg = "beam_set"}
QueuedTokens == {i \in 1..Len(in_queue) : in_queue[i].msg = "done"}
HeldTasks == {w \in Workers : task[w].msg = "beam_set"}

\* Every beam set that exists in the state, and every beam.
BeamSetsInFlight ==
    {in_queue[i].beam_set : i \in QueuedTasks} \cup {task[w].beam_set : w \in HeldTasks}
ResultBeamSets ==
    {out_queue[i].new_beams : i \in 1..Len(out_queue)} \cup Range(new_beam_sets)
AllBeamSets == Range(beam_sets) \cup BeamSetsInFlight \cup ResultBeamSets
AllBeams == UNION {Range(bs) : bs \in AllBeamSets}

\* Where the task with this id is: queued, held, answered or collected.
Occurrences(id) ==
    Cardinality({i \in QueuedTasks : in_queue[i].id = id})
    + Cardinality({w \in HeldTasks : task[w].id = id})
    + Cardinality({i \in 1..Len(out_queue) : out_queue[i].id = id})
    + Cardinality({i \in 1..Len(collected) : collected[i] = id})

\* A beam that grow would expand and all of whose candidates the hole check
\* drops.
AllCandidatesDropped(beam) ==
    /\ ~SkipBeam(beam, args.max_idiom_size)
    /\ \A c \in beam.frontier :
          DropCandidate(NewBeam(beam, c, args.batch_size, worker_embs).holes)

(***************************************************************************)
(* C1: every beam-set task put on the task queue is in exactly one place   *)
(* at any time (queued, held by one worker, answered by one result on the  *)
(* result queue, or collected), so it is taken by one worker and yields    *)
(* one result, never none or two; no other result exists.                  *)
(***************************************************************************)
C1_ExactlyOneResult ==
    /\ \A k \in 1..sent : Occurrences(<<generation, k>>) = 1
    /\ \A i \in 1..Len(out_queue) :
          out_queue[i].id[1] = generation /\ out_queue[i].id[2] \in 1..sent
    /\ \A i \in 1..Len(collected) :
          collected[i][1] = generation /\ collected[i][2] \in 1..sent

\* An empty result was collected for a task none of whose beams could be
\* expanded because every candidate failed the hole check.
C1_Witness ==
    /\ cpc = "advance"
    /\ new_beam_sets = <<>>
    /\ Len(collected) = Len(beam_sets)
    /\ \E bs \in Range(beam_sets) : \E b \in Range(bs) : AllCandidatesDropped(b)

(***************************************************************************)
(* C2: under fair scheduling search returns, and the number of the         *)
(* generation being dispatched or collected never exceeds max_idiom_size.  *)
(***************************************************************************)
C2_Termination ==
    /\ <>(cpc = "returned")
    /\ [](generation <= args.max_idiom_size)

\* The last generation, number max_idiom_size, ended with no result
\* although every beam dispatched in it still had a frontier.
C2_Witness ==
    /\ cpc = "advance"
    /\ new_beam_sets = <<>>
    /\ generation = args.max_idiom_size
    /\ generation >= 2
    /\ \A bs \in Range(beam_sets) : \A b \in Range(bs) : b.frontier # {}

(***************************************************************************)
(* C3: no partial-generation progress.  Every task and result in flight    *)
(* belongs to the current generation, and the tasks queued, the tasks held *)
(* by workers, the results queued and the results collected add up to the  *)
(* number of beam sets put in the current generation, which is all of them *)
(* once the coordinator collects.                                          *)
(***************************************************************************)
C3_NoPartialGeneration ==
    /\ \A i \in QueuedTasks : in_queue[i].id[1] = generation
    /\ \A w \in HeldTasks : task[w].id[1] = generation
    /\ \A i \in 1..Len(out_queue) : out_queue[i].id[1] = generation
    /\ Cardinality(QueuedTasks) + Cardinality(HeldTasks) + Len(out_queue) + Len(collected)
          = sent
    /\ cpc \in {"collect", "advance"} => sent = Len(beam_sets)
    /\ cpc = "dispatch" => collected = <<>>

\* In a later generation one result is collected while another task is
\* still with a worker.
C3_Witness ==
    /\ generation >= 2
    /\ Len(collected) = 1
    /\ HeldTasks # {}

(***************************************************************************)
(* C4: shutdown.  A termination token exists only once no beam-set task is *)
(* queued or held and no result is pending; one token per worker is sent;  *)
(* each worker that exited took exactly one token; search returns with all *)
(* workers exited and joined and both queues empty.                        *)
(***************************************************************************)
C4_Shutdown ==
    /\ tokens > 0 =>
          /\ cpc \in {"shutdown", "join", "returned"}
          /\ QueuedTasks = {} /\ HeldTasks = {} /\ out_queue = <<>>
          /\ beam_sets = <<>>
    /\ tokens <= args.n_workers
    /\ cpc \in {"join", "returned"} /\ generation > 0 => tokens = args.n_workers
    /\ Cardinality({w \in Workers : wpc[w] = "exited"}) + Cardinality(QueuedTokens) = tokens
    /\ cpc = "returned" =>
          /\ in_queue = <<>> /\ out_queue = <<>>
          /\ generation > 0 =>
                /\ joined = args.n_workers
                /\ \A w \in Workers : wpc[w] = "exited"

\* search has returned from a run with several workers and two generations.
C4_Witness ==
    /\ cpc = "returned"
    /\ args.n_workers >= 2
    /\ generation >= 2

(***************************************************************************)
(* C5: in every beam, seed or grown, the neighborhood and the frontier are *)
(* disjoint, the frontier and visited are disjoint, and the nodes of the   *)
(* neighborhood are exactly visited.                                       *)
(***************************************************************************)
C5_FrontierDisjoint ==
    \A b \in AllBeams :
        /\ Range(b.neigh) \cap b.frontier = {}
        /\ b.frontier \cap b.visited = {}
        /\ Range(b.neigh) = b.visited

\* A beam grown twice from a seed of seed-subgraph mode, whose last node
\* has a visited neighbour, still has a frontier.
C5_Witness ==
    \E b \in UNION {Range(bs) : bs \in ResultBeamSets} :
        /\ args.mode = "g"
        /\ Len(b.neigh) >= 3
        /\ b.frontier # {}
        /\ _frontier(read_graph(b.graph_idx), b.neigh[Len(b.neigh)], "radial") \cap
              Range(SubSeq(b.neigh, 1, Len(b.neigh) - 1)) # {}

\* The number of nodes of a seed beam: one in random-anchor mode, the nodes
\* of the seed graph in seed-subgraph mode.
SeedSize ==
    IF args.mode = "g" THEN Cardinality(remove_node(get_simplified_ast(args.seed), 0).nodes)
    ELSE 1

\* The beam sets of the generation being dispatched or collected, and the
\* results produced from them.
TaskBeams ==
    UNION {Range(bs) : bs \in Range(beam_sets) \cup BeamSetsInFlight
                              \cup (IF cpc = "dispatch" THEN Range(new_beam_sets) ELSE {})}
GrownBeams ==
    UNION {Range(bs) : bs \in {out_queue[i].new_beams : i \in 1..Len(out_queue)}
                              \cup (IF cpc = "dispatch" THEN {} ELSE Range(new_beam_sets))}

HarvestedCount == SumSeq([k \in 1..Len(idiommine_gen) |-> Len(idiommine_gen[k].idioms)])

(***************************************************************************)
(* C7 as stated: a beam set dispatched after the first generation holds    *)
(* only the single top-ranked beam of the result it came from.             *)
(***************************************************************************)
C7_OnlyTopBeamDispatched ==
    generation >= 2 =>
        \A bs \in Range(beam_sets) \cup BeamSetsInFlight : Len(bs) = 1

(***************************************************************************)
(* C7, amended: when the coordinator collects a result it harvests one     *)
(* idiom, that of the top-ranked beam, and keeps the whole non-empty       *)
(* result, lower-ranked beams included, as a beam set of the next          *)
(* generation; the next generation dispatches exactly the results kept.    *)
(***************************************************************************)
C7_WholeResultKept ==
    [][/\ (cpc = "collect" /\ Len(collected') = Len(collected) + 1) =>
             LET new_beams == Head(out_queue).new_beams
             IN IF new_beams = <<>>
                THEN new_beam_sets' = new_beam_sets /\ HarvestedCount' = HarvestedCount
                ELSE /\ new_beam_sets' = Append(new_beam_sets, new_beams)
                     /\ HarvestedCount' = HarvestedCount + 1
                     /\ \E k \in 1..Len(idiommine_gen') :
                           \E j \in 1..Len(idiommine_gen'[k].idioms) :
                              idiommine_gen'[k].idioms[j] = Idiom(new_beams[1])
       /\ (cpc = "advance" /\ cpc' # "advance") => beam_sets' = new_beam_sets]_vars

\* A task of a later generation holds two beams.
C7_Witness ==
    /\ generation >= 2
    /\ \E bs \in BeamSetsInFlight : Len(bs) >= 2

\* Scenario A: the task behind result i of the first generation is a single
\* one-node seed beam with a frontier of two nodes, and n_beams = 1.
ScenarioA(i) ==
    /\ generation = 1
    /\ args.n_beams = 1
    /\ args.max_idiom_size >= 2
    /\ LET beam_set == beam_sets[out_queue[i].id[2]]
       IN /\ Len(beam_set) = 1
          /\ Len(beam_set[1].neigh) = 1
          /\ Cardinality(beam_set[1].frontier) = 2

\* The two candidates of the seed beam behind result i, as grow scores them.
ScenarioCandidates(i) ==
    LET beam == beam_sets[out_queue[i].id[2]][1]
    IN {NewBeam(beam, c, args.batch_size, worker_embs) : c \in beam.frontier}

(***************************************************************************)
(* C8 as stated: in scenario A the result holds exactly one beam, of two   *)
(* nodes, and it is the candidate with the higher score of the two.        *)
(***************************************************************************)
C8_HigherScoreWins ==
    \A i \in 1..Len(out_queue) :
        ScenarioA(i) =>
            LET new_beams == out_queue[i].new_beams
            IN /\ Len(new_beams) = 1
               /\ Len(new_beams[1].neigh) = 2
               /\ \A c \in ScenarioCandidates(i) : c.score <= new_beams[1].score

(***************************************************************************)
(* C8, amended: in scenario A the result holds at most one beam, and one   *)
(* exactly when a candidate passes the hole check; that beam has two nodes *)
(* and is a candidate that passes the hole check with the greatest key     *)
(* score / holes (raw score when holes = 0), which need not be the         *)
(* greatest score.                                                         *)
(***************************************************************************)
C8_BestKeyWins ==
    \A i \in 1..Len(out_queue) :
        ScenarioA(i) =>
            LET new_beams == out_queue[i].new_beams
                passing == {c \in ScenarioCandidates(i) : c.holes >= 0 /\ c.holes <= MAX_HOLES}
            IN /\ Len(new_beams) <= 1
               /\ Len(new_beams) = 1 <=> passing # {}
               /\ Len(new_beams) = 1 =>
                     /\ Len(new_beams[1].neigh) = 2
                     /\ new_beams[1] \in passing
                     /\ \A c \in passing :
                           KeyNum(c) * KeyDen(new_beams[1]) <= KeyNum(new_beams[1]) * KeyDen(c)

\* In scenario A the beam of the result has a lower score than the other
\* candidate, which passes the hole check too.
C8_Witness ==
    \E i \in 1..Len(out_queue) :
        /\ ScenarioA(i)
        /\ Len(out_queue[i].new_beams) = 1
        /\ \E c \in ScenarioCandidates(i) :
              /\ c.holes >= 0 /\ c.holes <= MAX_HOLES
              /\ c.score > out_queue[i].new_beams[1].score

(***************************************************************************)
(* C9 as stated: the score a call of score_candidate_freq returns is the   *)
(* number of target embeddings of the whole pool that predictv2 judges to  *)
(* contain the candidate, whatever the pool size and batch_size.           *)
(***************************************************************************)
C9_ScoreCountsWholePool ==
    (call.fn = "score_candidate_freq" /\ call.returned) =>
        call.score = SumSeq(predictv2(Flatten(call.embs), call.cand_emb))

\* What the call returns: the count over the first
\* (len(embs) // batch_size) * batch_size programs of the pool.
C9_ScoreCountsFullBatches ==
    (call.fn = "score_candidate_freq" /\ call.returned) =>
        call.score =
            SumSeq(predictv2(
                Flatten(SubSeq(call.embs, 1,
                               (Len(call.embs) \div args.batch_size) * args.batch_size)),
                call.cand_emb))

\* A call returned a score that leaves out a program of the pool which
\* contains the candidate.
C9_Witness ==
    /\ call.fn = "score_candidate_freq"
    /\ call.returned
    /\ Len(call.embs) % args.batch_size # 0
    /\ call.score < SumSeq(predictv2(Flatten(call.embs), call.cand_emb))

\* The candidates grow makes for the task behind result i, and those whose
\* hole count is within 0..MAX_HOLES.
TaskCandidates(i) ==
    UNION {{NewBeam(b, c, args.batch_size, worker_embs) : c \in b.frontier} :
             b \in {x \in Range(beam_sets[out_queue[i].id[2]]) :
                       ~SkipBeam(x, args.max_idiom_size)}}
EligibleCandidates(i) == {c \in TaskCandidates(i) : c.holes >= 0 /\ c.holes <= MAX_HOLES}

Parent(new_beam) == SubSeq(new_beam.neigh, 1, Len(new_beam.neigh) - 1)
Survivors ==
    {c \in UNION {{NewBeam(b, n, args.batch_size, grow_embs) : n \in b.frontier} :
                    b \in {x \in Range(call.beam_set) :
                              Len(x.neigh) < args.max_idiom_size}} :
        c.holes >= 0 /\ c.holes <= MAX_HOLES}

(***************************************************************************)
(* C11: the result a worker emits for a task is the first n_beams entries  *)
(* of the surviving candidates pooled over every beam of the task, ordered *)
(* by non-increasing key (score / holes, raw score when holes = 0): it     *)
(* holds min(n_beams, number of survivors) distinct survivors, greatest    *)
(* key first, and no omitted survivor has a strictly greater key than an   *)
(* emitted one.                                                            *)
(***************************************************************************)
C11_TopBeamsEmitted ==
    (call.fn = "grow" /\ call.returned) =>
        /\ Len(call.new_beams) = Min(args.n_beams, Cardinality(Survivors))
        /\ Range(call.new_beams) \subseteq Survivors
        /\ Cardinality(Range(call.new_beams)) = Len(call.new_beams)
        /\ \A j, k \in 1..Len(call.new_beams) :
              j < k => KeyNum(call.new_beams[j]) * KeyDen(call.new_beams[k])
                          >= KeyNum(call.new_beams[k]) * KeyDen(call.new_beams[j])
        /\ \A c \in Survivors \ Range(call.new_beams) : \A e \in Range(call.new_beams) :
              KeyNum(c) * KeyDen(e) <= KeyNum(e) * KeyDen(c)

\* A task of two beams gave a result of two beams, one from each beam of
\* the task, and a survivor made from the first beam, appended before the
\* second emitted beam, is omitted for its strictly smaller key.
C11_Witness ==
    /\ call.fn = "grow"
    /\ call.returned
    /\ Len(call.beam_set) = 2
    /\ Len(call.new_beams) = 2
    /\ Parent(call.new_beams[1]) = call.beam_set[1].neigh
    /\ Parent(call.new_beams[2]) = call.beam_set[2].neigh
    /\ \E c \in Survivors \ Range(call.new_beams) :
          /\ Parent(c) = call.beam_set[1].neigh
          /\ KeyNum(c) * KeyDen(call.new_beams[2]) < KeyNum(call.new_beams[2]) * KeyDen(c)

\* The graph g with every node n renamed pi[n], the anchor mark carried
\* along.
Relabel(g, pi) ==
    [nodes |-> {pi[n] : n \in g.nodes},
     edges |-> {<<pi[e[1]], pi[e[2]]>> : e \in g.edges},
     anchor |-> [m \in {pi[n] : n \in g.nodes} |->
                    g.anchor[CHOOSE n \in g.nodes : pi[n] = m]]]

(***************************************************************************)
(* C12: wl_hash is invariant under node relabeling.  For every graph with  *)
(* one anchor-marked node and every permutation of its node ids that       *)
(* carries the anchor mark along, the relabeled graph has the hash of the  *)
(* graph; as nodes are iterated in the order of their ids, this is also    *)
(* independence of the node iteration order.                               *)
(***************************************************************************)
C12_HashRelabelInvariant ==
    (call.fn = "wl_hash" /\ call.returned) =>
        \A pi \in Perms(call.g.nodes) : wl_hash(Relabel(call.g, pi)) = call.hash

\* A hashed graph of three nodes and two edges or more whose anchor is not
\* the first node iterated, and a relabeling of it that moves the anchor
\* and gives a different graph.
C12_Witness ==
    /\ call.fn = "wl_hash"
    /\ call.returned
    /\ Cardinality(call.g.nodes) = 3
    /\ Cardinality(call.g.edges) >= 2
    /\ call.g.anchor[1] = 0
    /\ \E pi \in Perms(call.g.nodes) :
          /\ Relabel(call.g, pi) # call.g
          /\ \E n \in call.g.nodes : call.g.anchor[n] = 1 /\ pi[n] # n

\* The canonical hash of the top beam of a result, the instances the
\* generation's buckets hold for a hash, and the count of the summary for a
\* size and a hash (none and 0 when there is no entry).
TopHash(new_beams) == wl_hash(Idiom(new_beams[1]))
BucketOf(buckets, h) ==
    IF \E k \in 1..Len(buckets) : buckets[k].hash = h
    THEN buckets[CHOOSE k \in 1..Len(buckets) : buckets[k].hash = h].idioms
    ELSE <<>>
SummaryAt(summary, s, h) == IF <<s, h>> \in DOMAIN summary THEN summary[<<s, h>>] ELSE 0

\* The generation whose harvest idiommine_gen and new_beam_sets hold: they
\* are reset when the dispatch of the next generation is over.
HarvestGeneration == IF cpc = "dispatch" THEN generation - 1 ELSE generation

\* The hashes of the idioms harvested in that generation.
HarvestHashes ==
    {idiommine_gen[k].hash : k \in 1..Len(idiommine_gen)}
        \cup {TopHash(new_beam_sets[k]) : k \in 1..Len(new_beam_sets)}

(***************************************************************************)
(* C13: harvest accounting.  Collecting a non-empty result adds one        *)
(* occurrence, that of its first beam, to the summary entry of that beam's *)
(* node count and canonical hash and one instance to the bucket of that    *)
(* hash, and nothing else; collecting an empty result adds nothing; no     *)
(* other step touches the summary.  So at any time the bucket of a hash h  *)
(* holds as many instances as non-empty results of the generation have a   *)
(* top beam of hash h, which is the count of the summary for the           *)
(* generation's size and h; there is one bucket per hash, and it holds     *)
(* only idioms of that hash.                                               *)
(***************************************************************************)
C13_HarvestAccounting ==
    /\ [](/\ \A k, l \in 1..Len(idiommine_gen) :
                /\ idiommine_gen[k].hash = idiommine_gen[l].hash => k = l
                /\ idiommine_gen[k].idioms # <<>>
                /\ \A j \in 1..Len(idiommine_gen[k].idioms) :
                      wl_hash(idiommine_gen[k].idioms[j]) = idiommine_gen[k].hash
          /\ \A h \in HarvestHashes :
                /\ Len(BucketOf(idiommine_gen, h))
                      = Cardinality({k \in 1..Len(new_beam_sets) :
                                        TopHash(new_beam_sets[k]) = h})
                /\ Len(BucketOf(idiommine_gen, h))
                      = SummaryAt(mine_summary, SeedSize + HarvestGeneration, h)
          /\ \A key \in DOMAIN mine_summary :
                /\ mine_summary[key] >= 1
                /\ key[1] \in (SeedSize + 1)..(SeedSize + HarvestGeneration))
    /\ [][IF cpc = "collect" /\ Len(collected') = Len(collected) + 1
          THEN LET new_beams == Head(out_queue).new_beams
               IN IF new_beams = <<>>
                  THEN mine_summary' = mine_summary /\ idiommine_gen' = idiommine_gen
                  ELSE LET h == TopHash(new_beams)
                           s == Len(new_beams[1].neigh)
                       IN /\ DOMAIN mine_summary' = DOMAIN mine_summary \cup {<<s, h>>}
                          /\ mine_summary'[<<s, h>>] = SummaryAt(mine_summary, s, h) + 1
                          /\ \A key \in DOMAIN mine_summary \ {<<s, h>>} :
                                mine_summary'[key] = mine_summary[key]
                          /\ BucketOf(idiommine_gen', h)
                                = Append(BucketOf(idiommine_gen, h), Idiom(new_beams[1]))
                          /\ \A k \in 1..Len(idiommine_gen) :
                                idiommine_gen[k].hash # h =>
                                   BucketOf(idiommine_gen', idiommine_gen[k].hash)
                                      = idiommine_gen[k].idioms
          ELSE mine_summary' = mine_summary]_vars

\* Two results of one generation whose top beams lie in different programs
\* and are isomorphic share one bucket of two instances, counted twice,
\* and the results hold more beams than were harvested.
C13_Witness ==
    /\ cpc = "advance"
    /\ \E k \in 1..Len(idiommine_gen) :
          LET idioms == idiommine_gen[k].idioms
          IN /\ Len(idioms) = 2
             /\ idioms[1].graph_idx # idioms[2].graph_idx
             /\ SummaryAt(mine_summary, Cardinality(idioms[1].nodes), idiommine_gen[k].hash) = 2
    /\ \E k \in 1..Len(new_beam_sets) : Len(new_beam_sets[k]) >= 2

\* search run by one process that grows each task as it is dispatched:
\* the summaries it can have after g generations from the beam sets `sets`
\* and the summary `summary`.  RefGeneration handles the tasks k.. of one
\* generation, `kept` being the non-empty results so far.
RECURSIVE RefGeneration(_, _, _, _)
RefGeneration(sets, k, summary, kept) ==
    IF k > Len(sets) THEN {<<summary, kept>>}
    ELSE UNION {RefGeneration(sets, k + 1, HarvestSummary(summary, HarvestedBeams(new_beams)),
                              KeepResult(kept, new_beams)) :
                  new_beams \in GrowResults(sets[k], args.max_idiom_size, args.n_beams,
                                            args.batch_size, worker_embs)}

RECURSIVE RefRun(_, _, _)
RefRun(sets, summary, g) ==
    IF g = 0 \/ sets = <<>> THEN {summary}
    ELSE UNION {RefRun(p[2], p[1], g - 1) : p \in RefGeneration(sets, 1, summary, <<>>)}

(***************************************************************************)
(* C14: for fixed initial beam sets the summary search has at the end of   *)
(* each generation, and so the one it returns, is the one that a single    *)
(* process growing the tasks in dispatch order arrives at, whatever the    *)
(* order in which results arrive, whichever worker takes which task and    *)
(* however many workers there are; and that summary is unique.             *)
(***************************************************************************)
C14_SummaryOrderIndependent ==
    (call.fn = "search" /\ cpc \in {"advance", "shutdown", "join", "returned"}) =>
        /\ mine_summary \in RefRun(call.beam_sets, <<>>, generation)
        /\ Cardinality(RefRun(call.beam_sets, <<>>, generation)) = 1

\* With two workers the result of the second task of a generation was
\* collected before that of the first; both are non-empty and differ, and
\* another generation follows.
C14_Witness ==
    /\ call.fn = "search"
    /\ cpc = "advance"
    /\ args.n_workers = 2
    /\ args.max_idiom_size > generation + 1
    /\ Len(collected) = 2
    /\ collected[1][2] > collected[2][2]
    /\ Len(new_beam_sets) = 2
    /\ new_beam_sets[1] # new_beam_sets[2]

(***************************************************************************)
(* C15: the beam sets dispatched in generation g + 1 are exactly the       *)
(* non-empty results collected in generation g.  A collected result is     *)
(* kept when it is non-empty and dropped when it is empty; at the end of   *)
(* the generation the kept results become the beam sets, never more of     *)
(* them than before; the coordinator leaves the loop exactly when none is  *)
(* left; each task put on the queue is a beam set of the generation, so no *)
(* empty beam set is ever dispatched.                                      *)
(***************************************************************************)
C15_NextGenerationIsResults ==
    /\ [](/\ \A i \in QueuedTasks :
                in_queue[i].beam_set = beam_sets[in_queue[i].id[2]]
          /\ \A w \in HeldTasks : task[w].beam_set = beam_sets[task[w].id[2]]
          /\ \A k \in 1..Len(beam_sets) : beam_sets[k] # <<>>
          /\ cpc \in {"collect", "advance"} =>
                /\ Len(new_beam_sets) <= Len(collected)
                /\ Len(collected) <= Len(beam_sets)
          /\ cpc \in {"dispatch", "collect", "advance"} => beam_sets # <<>>
          /\ cpc \in {"shutdown", "join", "returned"} => beam_sets = <<>>)
    /\ [][/\ (cpc = "collect" /\ Len(collected') = Len(collected) + 1) =>
                new_beam_sets' = IF Head(out_queue).new_beams = <<>> THEN new_beam_sets
                                 ELSE Append(new_beam_sets, Head(out_queue).new_beams)
          /\ (cpc = "advance" /\ cpc' # "advance") =>
                /\ beam_sets' = new_beam_sets
                /\ Len(beam_sets') <= Len(beam_sets)
                /\ generation' = IF beam_sets' = <<>> THEN generation ELSE generation + 1
                /\ cpc' = IF beam_sets' = <<>> THEN "shutdown" ELSE "dispatch"
          /\ (cpc # "advance" /\ cpc # "init") => beam_sets' = beam_sets]_vars

\* At the end of a later generation one lineage has ended with an empty
\* result and another goes on.
C15_Witness ==
    /\ cpc = "advance"
    /\ generation >= 2
    /\ Len(collected) = Len(beam_sets)
    /\ new_beam_sets # <<>>
    /\ Len(new_beam_sets) < Len(beam_sets)

(***************************************************************************)
(* C16: when seed initialisation returns no beam sets, search returns at   *)
(* once with an empty summary: no message was ever put on a queue, no      *)
(* worker was started, sent a token or joined, and no idiom was persisted; *)
(* and a run in which a worker was started began with some beam set.       *)
(***************************************************************************)
C16_EmptySeedsReturnEmpty ==
    /\ [][(cpc = "init" /\ cpc' \notin {"init", "NameError", "ValueError"}
              /\ beam_sets' = <<>>) =>
             /\ cpc' = "returned"
             /\ generation' = 0]_vars
    /\ []((cpc = "returned" /\ generation = 0) =>
             /\ beam_sets = <<>>
             /\ mine_summary = <<>>
             /\ idiom_store = <<>>
             /\ in_queue = <<>> /\ out_queue = <<>>
             /\ \A w \in Workers : wpc[w] = "unstarted" /\ task[w] = NoTask
             /\ sent = 0 /\ tokens = 0 /\ joined = 0)
    /\ [](generation = 0 => \A w \in Workers : wpc[w] = "unstarted")

\* search has returned from a run in seed-subgraph mode whose query of two
\* nodes matches no program.
C16_Witness ==
    /\ cpc = "returned"
    /\ generation = 0
    /\ args.mode = "g"
    /\ Cardinality(remove_node(get_simplified_ast(args.seed), 0).nodes) = 2
    /\ \A idx \in Range(prog_indices) :
          subgraph_isomorphisms(read_graph(idx),
                                remove_node(get_simplified_ast(args.seed), 0)) = {}

\* The idioms harvested in the generation whose harvest idiommine_gen
\* holds, and their node counts.
HarvestedIdioms == UNION {Range(idiommine_gen[k].idioms) : k \in 1..Len(idiommine_gen)}
HarvestedSizes == {Cardinality(idiom.nodes) : idiom \in HarvestedIdioms}

\* Some idiom of n nodes has been persisted.
PersistedSize(n) == \E key \in DOMAIN idiom_store : key[1] = n

(***************************************************************************)
(* C17 as stated: in every seed mode the value tested against              *)
(* [min_idiom_size, max_idiom_size] at the end of a generation, size + 1,  *)
(* is the node count of the idioms harvested in it, and once the           *)
(* generation is over its idioms are persisted exactly when their node     *)
(* count lies in that range.                                               *)
(***************************************************************************)
C17_PersistedByNodeCount ==
    /\ cpc = "advance" => \A n \in HarvestedSizes : n = size + 1
    /\ cpc \notin {"collect", "advance"} =>
          \A n \in HarvestedSizes :
             PersistedSize(n) <=> (n >= args.min_idiom_size /\ n <= args.max_idiom_size)

(***************************************************************************)
(* What search does: the value tested is the number of the generation plus *)
(* one, whatever the node count of the seed, so the idioms of a generation *)
(* are persisted exactly when that number lies in the range.  Their node   *)
(* count is the seed's node count plus the number of the generation.       *)
(***************************************************************************)
C17_PersistedByGeneration ==
    /\ cpc = "advance" =>
          /\ size = generation
          /\ \A n \in HarvestedSizes : n = SeedSize + generation
    /\ cpc \notin {"collect", "advance"} =>
          \A n \in HarvestedSizes :
             PersistedSize(n) <=>
                (n - SeedSize + 1 >= args.min_idiom_size
                    /\ n - SeedSize + 1 <= args.max_idiom_size)

\* From a seed of two nodes a generation harvested idioms of three nodes,
\* a count within the range, and search has returned without persisting
\* them.
C17_Witness ==
    /\ cpc = "returned"
    /\ args.mode = "g"
    /\ SeedSize = 2
    /\ args.min_idiom_size = 3
    /\ args.max_idiom_size = 3
    /\ mine_summary # <<>>
    /\ \A key \in DOMAIN mine_summary : key[1] = 3
    /\ idiom_store = <<>>

\* The hashes of the idioms a call of _save_idiom_generation wrote.
WrittenHashes == {wl_hash(call.store[key]) : key \in DOMAIN call.store}

(***************************************************************************)
(* C18: _save_idiom_generation writes one idiom per bucket for the first   *)
(* min(rank, number of buckets) buckets in non-increasing order of         *)
(* occurrence count.  The files are numbered 0, 1, ... in that order; each *)
(* holds an instance of a bucket of its own and records the node count of  *)
(* the instance and, as frequency, the number of instances of its bucket;  *)
(* no bucket left unwritten has more instances than a written one.         *)
(***************************************************************************)
C18_TopRankBucketsSaved ==
    (call.fn = "_save_idiom_generation" /\ call.returned) =>
        LET buckets == call.idiommine_gen
            store == call.store
            written == Min(args.rank, Len(buckets))
        IN /\ Cardinality(DOMAIN store) = written
           /\ {key[2] : key \in DOMAIN store} = 0..(written - 1)
           /\ Cardinality(WrittenHashes) = written
           /\ \A key \in DOMAIN store :
                 /\ \E i \in 1..Len(BucketOf(buckets, wl_hash(store[key]))) :
                       BucketOf(buckets, wl_hash(store[key]))[i] = store[key]
                 /\ key[1] = Cardinality(store[key].nodes)
                 /\ key[3] = Len(BucketOf(buckets, wl_hash(store[key])))
           /\ \A a, b \in DOMAIN store : a[2] < b[2] => a[3] >= b[3]
           /\ \A k \in 1..Len(buckets) :
                 buckets[k].hash \notin WrittenHashes =>
                    \A key \in DOMAIN store : Len(buckets[k].idioms) <= key[3]

\* With rank 1 the generation had two buckets, the one created first with
\* one instance and the other with two; the file written records
\* frequency 2.
C18_Witness ==
    /\ call.fn = "_save_idiom_generation"
    /\ call.returned
    /\ args.rank = 1
    /\ Len(call.idiommine_gen) = 2
    /\ Len(call.idiommine_gen[1].idioms) = 1
    /\ Len(call.idiommine_gen[2].idioms) = 2
    /\ call.idiommine_gen[2].idioms[1] # call.idiommine_gen[2].idioms[2]
    /\ \E key \in DOMAIN call.store : key[3] = 2

\* search was entered in seed-subgraph mode with a seed snippet that does
\* not parse; with one that parses to the Module root alone.
UnparsableSeed ==
    /\ args.mode = "g" /\ args.seed # "None"
    /\ get_simplified_ast(args.seed) = None
RootOnlySeed ==
    /\ args.mode = "g" /\ args.seed # "None"
    /\ get_simplified_ast(args.seed) # None
    /\ remove_node(get_simplified_ast(args.seed), 0).nodes = {}

\* Seed initialisation is over.
SeedingOver == call.fn = "main" /\ call.pc = "search" /\ cpc # "init"

(***************************************************************************)
(* C19 as stated: in seed-subgraph mode a seed that cannot be parsed, and  *)
(* equally a seed with no non-root node, makes search fail with the        *)
(* invalid-seed error (ValueError) before any worker is started, and no    *)
(* beam set is produced.                                                   *)
(***************************************************************************)
C19_InvalidSeedFails ==
    (SeedingOver /\ (UnparsableSeed \/ RootOnlySeed)) =>
        /\ cpc = "ValueError"
        /\ \A w \in Workers : wpc[w] = "unstarted"
        /\ beam_sets = <<>> /\ in_queue = <<>>

(***************************************************************************)
(* What init_search_g does: a seed that cannot be parsed fails so; a seed  *)
(* with no non-root node raises nothing, and while search runs every beam  *)
(* has an empty neighborhood and an empty frontier.                        *)
(***************************************************************************)
C19_OnlyUnparsableSeedFails ==
    /\ (SeedingOver /\ UnparsableSeed) =>
          /\ cpc = "ValueError"
          /\ \A w \in Workers : wpc[w] = "unstarted"
          /\ beam_sets = <<>> /\ in_queue = <<>>
    /\ (SeedingOver /\ RootOnlySeed) =>
          /\ cpc # "ValueError"
          /\ \A w \in Workers : wpc[w] # "unstarted"
          /\ \A b \in AllBeams : b.neigh = <<>> /\ b.frontier = {}
          /\ mine_summary = <<>>
    /\ cpc = "ValueError" => UnparsableSeed

\* With a seed that has no non-root node search has returned normally:
\* workers were started, ran a generation and exited.
C19_Witness ==
    /\ RootOnlySeed
    /\ cpc = "returned"
    /\ generation = 1
    /\ \A w \in Workers : wpc[w] = "exited"
    /\ mine_summary = <<>>

\* The parameter the mode requires is absent.
MissingSeed == args.mode = "g" /\ args.seed = "None"
MissingKeywords == args.mode = "k" /\ args.keywords = "None"

(***************************************************************************)
(* C20 as stated: when the seed is absent in seed-subgraph mode, and       *)
(* equally when the keywords are absent in keyword mode, main fails with   *)
(* the configuration error (parser.error) in its check: search is never    *)
(* entered, so no seed is initialised and no worker is started.            *)
(***************************************************************************)
C20_MissingParameterFails ==
    (call.fn = "main" /\ call.pc # "check" /\ (MissingSeed \/ MissingKeywords)) =>
        /\ call.pc = "parser.error"
        /\ cpc = "init"
        /\ \A w \in Workers : wpc[w] = "unstarted"

(***************************************************************************)
(* What main does: the configuration error is raised exactly when the seed *)
(* is absent in seed-subgraph mode, and search is then never entered.  In  *)
(* keyword mode main calls search with or without keywords, and search     *)
(* ends with NameError at its first line, no worker started.               *)
(***************************************************************************)
C20_OnlySeedIsChecked ==
    /\ (call.fn = "main" /\ call.pc # "check") =>
          /\ call.pc = "parser.error" <=> MissingSeed
          /\ call.pc = "parser.error" =>
                cpc = "init" /\ \A w \in Workers : wpc[w] = "unstarted"
    /\ args.mode = "k" =>
          /\ cpc \in {"init", "NameError"}
          /\ \A w \in Workers : wpc[w] = "unstarted"
    /\ cpc = "NameError" => args.mode = "k"

\* In keyword mode without keywords main went on to call search, which
\* ended with NameError.
C20_Witness ==
    /\ MissingKeywords
    /\ call.fn = "main"
    /\ call.pc = "search"
    /\ cpc = "NameError"

\* The workers that died, and the places other than a dead worker where the
\* task with this id is.
DeadWorkers == {w \in Workers : wpc[w] = "dead"}
LiveOccurrences(id) ==
    Cardinality({i \in QueuedTasks : in_queue[i].id = id})
    + Cardinality({w \in HeldTasks \ DeadWorkers : task[w].id = id})
    + Cardinality({i \in 1..Len(out_queue) : out_queue[i].id = id})
    + Cardinality({i \in 1..Len(collected) : collected[i] = id})

(***************************************************************************)
(* C21: once a worker has died holding a beam-set task, the task is never  *)
(* put on the task queue again, taken by another worker, answered or       *)
(* collected; the dead worker stays dead with its task; the coordinator,   *)
(* which finishes the dispatch it may be in, never collects the results of *)
(* all the beam sets of the generation, so once in the collect loop it     *)
(* never leaves it: it starts no further generation, sends no termination  *)
(* token and never returns, whatever the other workers do.                 *)
(***************************************************************************)
C21_DeadWorkerBlocksCollect ==
    /\ [](DeadWorkers # {} =>
             /\ cpc \in {"dispatch", "collect"}
             /\ tokens = 0
             /\ Len(collected) + Cardinality(DeadWorkers) <= Len(beam_sets)
             /\ \A w \in DeadWorkers :
                   /\ task[w].msg = "beam_set"
                   /\ task[w].id[1] = generation
                   /\ LiveOccurrences(task[w].id) = 0)
    /\ [][DeadWorkers # {} =>
             /\ DeadWorkers \subseteq DeadWorkers'
             /\ \A w \in DeadWorkers : task'[w] = task[w]
             /\ generation' = generation
             /\ beam_sets' = beam_sets
             /\ cpc = "collect" => cpc' = "collect"]_vars

\* With two workers one died holding a task of a later generation; the
\* other answered every other task of the generation, all were collected,
\* and it waits on the empty task queue while the coordinator waits on the
\* empty result queue.
C21_Witness ==
    /\ args.n_workers = 2
    /\ generation >= 2
    /\ Cardinality(DeadWorkers) = 1
    /\ \E w \in Workers : wpc[w] = "get"
    /\ cpc = "collect"
    /\ Len(beam_sets) >= 2
    /\ Len(collected) = Len(beam_sets) - 1
    /\ in_queue = <<>>
    /\ out_queue = <<>>

\* The one-hop boundary of a node set in a graph: the nodes outside it that
\* are a successor or a predecessor of one of its nodes.
Boundary(graph, nodeset) ==
    (UNION {successors(graph, n) \cup predecessors(graph, n) : n \in nodeset}) \ nodeset

\* The nodes of a beam's boundary that are there only as a predecessor of
\* the beam's first node.
AnchorOnlyPredecessors(b) ==
    LET graph == read_graph(b.graph_idx)
        others == Range(Tail(b.neigh))
    IN (predecessors(graph, b.neigh[1]) \ successors(graph, b.neigh[1]))
          \ (Range(b.neigh) \cup Boundary(graph, others))

(***************************************************************************)
(* C22 as stated: in every seed mode the frontier of every beam is exactly *)
(* the one-hop boundary of its neighborhood.                               *)
(***************************************************************************)
C22_FrontierIsBoundary ==
    \A b \in AllBeams : b.frontier = Boundary(read_graph(b.graph_idx), Range(b.neigh))

(***************************************************************************)
(* C22, amended: the frontier of every beam lies within the one-hop        *)
(* boundary of its neighborhood.  In seed-subgraph mode it is exactly that *)
(* boundary.  In random-anchor mode the seed frontier holds the successors *)
(* of the anchor only, so the frontier is the boundary less the nodes that *)
(* are in it only as a predecessor of the anchor.                          *)
(***************************************************************************)
C22_FrontierByMode ==
    \A b \in AllBeams :
        LET boundary == Boundary(read_graph(b.graph_idx), Range(b.neigh))
        IN /\ b.frontier \subseteq boundary
           /\ args.mode = "g" => b.frontier = boundary
           /\ args.mode = "m" => b.frontier = boundary \ AnchorOnlyPredecessors(b)

\* In random-anchor mode a beam grown to two nodes has an empty frontier
\* although a predecessor of its anchor lies outside the beam.
C22_Witness ==
    /\ args.mode = "m"
    /\ \E b \in GrownBeams :
          /\ Len(b.neigh) = 2
          /\ b.frontier = {}
          /\ predecessors(read_graph(b.graph_idx), b.neigh[1]) \ Range(b.neigh) # {}

\* The node set S of graph is a match of seed_graph: some one-to-one map
\* of the seed's nodes onto S keeps span and syntactic type and carries the
\* seed's edges to exactly the edges of graph within S.
IsMatchOf(graph, S, seed_graph) ==
    \E f \in [seed_graph.nodes -> S] :
        /\ {f[a] : a \in seed_graph.nodes} = S
        /\ Cardinality(S) = Cardinality(seed_graph.nodes)
        /\ \A a \in seed_graph.nodes :
              /\ graph.span[f[a]] = seed_graph.span[a]
              /\ graph.ast_type[f[a]] = seed_graph.ast_type[a]
        /\ \A a, b \in seed_graph.nodes :
              (<<a, b>> \in seed_graph.edges) <=> (<<f[a], f[b]>> \in graph.edges)

HasMatch(idx, seed_graph) ==
    \E S \in SUBSET read_graph(idx).nodes : IsMatchOf(read_graph(idx), S, seed_graph)

\* The entries of a sample whose program has a match, in order.
RECURSIVE MatchedIndices(_, _)
MatchedIndices(indices, seed_graph) ==
    IF indices = <<>> THEN <<>>
    ELSE (IF HasMatch(Head(indices), seed_graph) THEN <<Head(indices)>> ELSE <<>>)
            \o MatchedIndices(Tail(indices), seed_graph)

\* The seed graph of a call of init_search_g: the seed's simplified AST
\* less its Module root.
QueryGraph ==
    LET sast == get_simplified_ast(call.seed)
    IN [nodes |-> sast.nodes \ {0},
        edges |-> {e \in sast.edges : 0 \notin {e[1], e[2]}},
        span |-> sast.span, ast_type |-> sast.ast_type]

(***************************************************************************)
(* C23: init_search_g returns one beam set for each sampled program that   *)
(* has a match of the seed graph, in the order of the sample, and none for *)
(* a program without a match.  Each beam set holds one beam: score 0, hole *)
(* count 0, the neighborhood lists the nodes of one match without          *)
(* repetition, visited is that node set, and the frontier is the           *)
(* successors and predecessors of the matched nodes less the matched set.  *)
(***************************************************************************)
C23_OneSeedBeamPerMatchedGraph ==
    (call.fn = "init_search_g" /\ call.returned /\ call.raised = "none") =>
        LET matched == MatchedIndices(call.prog_indices, QueryGraph)
        IN /\ Len(call.beam_sets) = Len(matched)
           /\ \A k \in 1..Len(call.beam_sets) :
                 LET beam_set == call.beam_sets[k]
                     b == beam_set[1]
                     graph == read_graph(b.graph_idx)
                 IN /\ Len(beam_set) = 1
                    /\ b.graph_idx = matched[k]
                    /\ b.score = 0
                    /\ b.holes = 0
                    /\ IsMatchOf(graph, Range(b.neigh), QueryGraph)
                    /\ Cardinality(Range(b.neigh)) = Len(b.neigh)
                    /\ b.visited = Range(b.neigh)
                    /\ b.frontier =
                          (UNION {successors(graph, n) \cup predecessors(graph, n) :
                                    n \in Range(b.neigh)}) \ Range(b.neigh)

\* A call on a sample of a program without a match followed by a program
\* with two matches of a two-node seed returned one beam set; the nodes of
\* the program outside the match chosen are in the frontier.
C23_Witness ==
    /\ call.fn = "init_search_g"
    /\ call.returned
    /\ call.raised = "none"
    /\ Len(call.prog_indices) = 2
    /\ ~HasMatch(call.prog_indices[1], QueryGraph)
    /\ Cardinality({S \in SUBSET read_graph(call.prog_indices[2]).nodes :
                       IsMatchOf(read_graph(call.prog_indices[2]), S, QueryGraph)}) = 2
    /\ Len(call.beam_sets) = 1
    /\ Len(call.beam_sets[1][1].neigh) = 2
    /\ call.beam_sets[1][1].frontier # {}

\* The nodes reachable from the set R along the edges, taken in either
\* direction; a graph is weakly connected when it has a node from which
\* all its nodes are reachable so.
RECURSIVE Reach(_, _, _)
Reach(nodes, edges, R) ==
    LET next == R \cup {n \in nodes : \E m \in R : <<m, n>> \in edges \/ <<n, m>> \in edges}
    IN IF next = R THEN R ELSE Reach(nodes, edges, next)

WeaklyConnected(nodes, edges) ==
    /\ nodes # {}
    /\ Reach(nodes, edges, {CHOOSE n \in nodes : TRUE}) = nodes

\* The seed's node set is weakly connected in the seed graph.
SeedConnected ==
    args.mode = "g" =>
        LET seed_graph == remove_node(get_simplified_ast(args.seed), 0)
        IN WeaklyConnected(seed_graph.nodes, seed_graph.edges)

\* The idioms persisted so far.
StoredIdioms == {idiom_store[key] : key \in DOMAIN idiom_store}

(***************************************************************************)
(* C24: when the seed's node set is weakly connected, every idiom the      *)
(* coordinator harvests or persists is a weakly connected subgraph of its  *)
(* program graph: its edges are the edges of the program between its       *)
(* nodes, self-loops left out, and they connect it.  The same holds of    *)
(* the idiom of every beam, harvested or not, and each node a growth step  *)
(* added to a beam is a successor or predecessor of a node the beam held   *)
(* before.                                                                 *)
(***************************************************************************)
C24_IdiomsWeaklyConnected ==
    SeedConnected =>
        /\ \A idiom \in HarvestedIdioms \cup StoredIdioms :
              LET graph == read_graph(idiom.graph_idx)
              IN /\ idiom.nodes \subseteq graph.nodes
                 /\ idiom.edges = {e \in graph.edges : e[1] \in idiom.nodes
                                      /\ e[2] \in idiom.nodes /\ e[1] # e[2]}
                 /\ WeaklyConnected(idiom.nodes, idiom.edges)
        /\ \A b \in AllBeams : WeaklyConnected(Idiom(b).nodes, Idiom(b).edges)
        /\ \A b \in AllBeams : \A i \in (SeedSize + 1)..Len(b.neigh) :
              LET graph == read_graph(b.graph_idx)
              IN \E j \in 1..(i - 1) :
                    b.neigh[i] \in successors(graph, b.neigh[j])
                                      \cup predecessors(graph, b.neigh[j])

\* An idiom of three nodes was harvested that is connected only through an
\* edge into its anchor: no edge leaves the anchor towards that node.
C24_Witness ==
    \E idiom \in HarvestedIdioms :
        /\ Cardinality(idiom.nodes) = 3
        /\ \E e \in idiom.edges :
              /\ idiom.anchor[e[2]] = 1
              /\ ~WeaklyConnected(idiom.nodes, idiom.edges \ {e})

\* The seed beams a run of search started from, and those a beam or an
\* idiom can descend from: the seed lies in the same program and its
\* neighborhood is a prefix of the beam's, is within the idiom.
SeedBeams == {call.beam_sets[k][1] : k \in 1..Len(call.beam_sets)}
SeedsOfBeam(b) ==
    {sb \in SeedBeams : /\ sb.graph_idx = b.graph_idx
                        /\ Len(sb.neigh) <= Len(b.neigh)
                        /\ SubSeq(b.neigh, 1, Len(sb.neigh)) = sb.neigh}
AnchorsOf(idiom) == {v \in idiom.nodes : idiom.anchor[v] = 1}

(***************************************************************************)
(* C25: the anchor is fixed at seed time.  The neighborhood of every beam  *)
(* begins with the neighborhood of a seed beam of its program, so its      *)
(* first element is that seed's first node; a growth step appends one node *)
(* to the neighborhood of a beam of the task and changes nothing before    *)
(* it; and every harvested or persisted idiom has exactly one node marked  *)
(* anchor, the first node of a seed beam whose nodes the idiom holds.      *)
(***************************************************************************)
C25_AnchorFixedAtSeed ==
    /\ [](call.fn = "search" =>
             /\ \A b \in AllBeams : SeedsOfBeam(b) # {}
             /\ \A idiom \in HarvestedIdioms \cup StoredIdioms :
                   /\ Cardinality(AnchorsOf(idiom)) = 1
                   /\ \E sb \in SeedBeams :
                         /\ sb.graph_idx = idiom.graph_idx
                         /\ Range(sb.neigh) \subseteq idiom.nodes
                         /\ AnchorsOf(idiom) = {sb.neigh[1]})
    /\ [][\A w \in Workers :
             (call.fn = "search" /\ wpc[w] = "grow" /\ wpc'[w] = "get") =>
                \A nb \in Range(out_queue'[Len(out_queue')].new_beams) :
                   \E pb \in Range(task[w].beam_set) :
                      /\ nb.graph_idx = pb.graph_idx
                      /\ Len(nb.neigh) = Len(pb.neigh) + 1
                      /\ SubSeq(nb.neigh, 1, Len(pb.neigh)) = pb.neigh]_vars

\* From a seed of two nodes whose first node is not the root of the match,
\* an idiom of three nodes was harvested; its anchor is that first node,
\* which has an incoming edge within the idiom.
C25_Witness ==
    /\ call.fn = "search"
    /\ \E idiom \in HarvestedIdioms : \E sb \in SeedBeams :
          /\ Len(sb.neigh) = 2
          /\ Cardinality(idiom.nodes) = 3
          /\ sb.graph_idx = idiom.graph_idx
          /\ AnchorsOf(idiom) = {sb.neigh[1]}
          /\ \E e \in idiom.edges : e[2] = sb.neigh[1]

\* Where a candidate was appended and where it is in the result (0 when it
\* was cut); c is ranked below e when e is in the result and c comes after
\* it or was cut.
AppendedAt(c) == CHOOSE i \in 1..Len(call.appended) : call.appended[i] = c
RankOf(c) ==
    IF \E i \in 1..Len(call.new_beams) : call.new_beams[i] = c
    THEN CHOOSE i \in 1..Len(call.new_beams) : call.new_beams[i] = c
    ELSE 0
RankedBelow(c, e) == RankOf(e) > 0 /\ (RankOf(c) = 0 \/ RankOf(c) > RankOf(e))

\* The pairs the claim is about: two candidates of the task with the same
\* raw score, the first without holes, the second with one hole or more.
EqualScorePairs ==
    {p \in Range(call.appended) \X Range(call.appended) :
        p[1].score = p[2].score /\ p[1].holes = 0 /\ p[2].holes >= 1}

(***************************************************************************)
(* C26 as stated: between two surviving candidates of a task with equal    *)
(* raw score, the one with hole count 0 is never ranked below the one with *)
(* hole count 1 or more.                                                   *)
(***************************************************************************)
C26_CompleteNeverBelow ==
    (call.fn = "grow" /\ call.returned) =>
        \A p \in EqualScorePairs : ~RankedBelow(p[1], p[2])

(***************************************************************************)
(* C26, amended: between two surviving candidates of a task with equal raw *)
(* score, the one with hole count 0 is never ranked below one with hole    *)
(* count 2 or more unless the score is 0.  Against a candidate with hole   *)
(* count 1, and when the score is 0, the keys are equal and the candidate  *)
(* that was appended first is ranked first.                                *)
(***************************************************************************)
C26_CompleteBelowOnlyOnTie ==
    (call.fn = "grow" /\ call.returned) =>
        \A p \in EqualScorePairs :
            /\ RankedBelow(p[1], p[2]) =>
                  /\ p[2].holes = 1 \/ p[1].score = 0
                  /\ AppendedAt(p[2]) < AppendedAt(p[1])
            /\ RankedBelow(p[2], p[1]) =>
                  \/ p[2].holes >= 2 /\ p[1].score > 0
                  \/ AppendedAt(p[1]) < AppendedAt(p[2])

\* With n_beams = 1 a candidate with one hole, appended first, is the
\* result and a candidate without holes and the same positive score was
\* cut.
C26_Witness ==
    /\ call.fn = "grow"
    /\ call.returned
    /\ args.n_beams = 1
    /\ \E p \in EqualScorePairs :
          /\ p[1].score > 0
          /\ p[2].holes = 1
          /\ AppendedAt(p[2]) < AppendedAt(p[1])
          /\ call.new_beams = <<p[2]>>


(***************************************************************************)
(* C27 as stated: after the generation that grew the idioms of size        *)
(* node_count, mined_results is what the serial branch makes of the        *)
(* dictionary the generation started from: the merge of the parallel       *)
(* tasks' results loses no file's grown idioms.                            *)
(***************************************************************************)
\* The dictionary as it was before the last generation: a generation only
\* adds the key of the next size.
BeforeGeneration ==
    [n \in DOMAIN call.mined_results \ {call.node_count} |-> call.mined_results[n]]

LastFileIds == FileIds(DOMAIN call.mined_results[call.node_count - 1])

C27_MergeLosesNothing ==
    (call.fn = "codescholar_codefarmer" /\ call.node_count > 1)
        => call.mined_results = SerialBranch(BeforeGeneration, call.node_count - 1,
                                             LastFileIds, call.outcome)

\* What the code does: every successful result replaces mined_results, so
\* the dictionary after the merge is the copy returned by the task of the
\* last file, holding that file's grown idioms only.
C27_LastResultWins ==
    (call.fn = "codescholar_codefarmer" /\ call.node_count > 1)
        => call.mined_results =
               IF LastFileIds = <<>> THEN BeforeGeneration
               ELSE filewise_code_miner(BeforeGeneration, call.node_count - 1,
                                        LastFileIds[Len(LastFileIds)], call.outcome)

\* Two files were mined; the first grew an idiom of two statements, which
\* the serial branch keeps, and after the merge no idiom of that size is
\* recorded at all.
C27_Witness ==
    /\ call.fn = "codescholar_codefarmer"
    /\ call.node_count = 2
    /\ Len(LastFileIds) = 2
    /\ LET serial == SerialBranch(BeforeGeneration, 1, LastFileIds, call.outcome)
       IN 2 \in DOMAIN serial /\ 1 \in DOMAIN serial[2]
    /\ 2 \notin DOMAIN call.mined_results

(***************************************************************************)
(* C29: a call of codescholar_codefarmer returns, also when fix_max_len is *)
(* false and gamma is at least 1, because an idiom saved at size n+1 has   *)
(* the start line of an idiom of size n of the same file (its parent) and  *)
(* an end line greater than the parent's and no greater than the last line *)
(* of the file's statements; so the loop runs no more generations than a   *)
(* file has distinct end lines (one for a dataset with no statement).      *)
(***************************************************************************)
LastStatementLine(fileid) ==
    LET ends == {prog.end : prog \in call.mined_results[1][fileid]}
    IN CHOOSE l \in ends : \A k \in ends : k <= l

MostEndLines ==
    LET counts == {Cardinality({prog.end : prog \in call.mined_results[1][f]}) :
                       f \in DOMAIN call.mined_results[1]} \cup {1}
    IN CHOOSE c \in counts : \A d \in counts : d <= c

GrownFromParent ==
    \A n \in DOMAIN call.mined_results \ {1} :
        \A f \in DOMAIN call.mined_results[n] :
            \A idiom \in call.mined_results[n][f] :
                /\ (n - 1) \in DOMAIN call.mined_results
                /\ f \in DOMAIN call.mined_results[n - 1]
                /\ \E parent \in call.mined_results[n - 1][f] :
                      /\ idiom.idiom = parent.idiom \o <<idiom.idiom[n]>>
                      /\ idiom.start = parent.start
                      /\ idiom.end > parent.end
                      /\ idiom.end <= LastStatementLine(f)

C29_FarmerTerminates ==
    /\ <>(call.fn = "codescholar_codefarmer" => call.pc = "returned")
    /\ [](call.fn = "codescholar_codefarmer"
            => GrownFromParent /\ call.node_count <= MostEndLines + 1)

\* The call has returned with fix_max_len false and gamma at least 1, after
\* a generation that saved an idiom of two statements and one that saved
\* none.
C29_Witness ==
    /\ call.fn = "codescholar_codefarmer"
    /\ call.pc = "returned"
    /\ ~call.fix_max_len
    /\ ~call.gamma_below_1
    /\ call.node_count = 3
    /\ DOMAIN call.mined_results = {1, 2}

(***************************************************************************)
(* C28 as stated: no two beams of a beam set a worker emits have the same  *)
(* node set.                                                               *)
(***************************************************************************)
EmittedBeamSets ==
    {m.new_beams : m \in Range(out_queue)}
        \cup (IF call.fn = "grow" /\ call.returned THEN {call.new_beams} ELSE {})

SameNodeSets(new_beams) ==
    {p \in (1..Len(new_beams)) \X (1..Len(new_beams)) :
        p[1] < p[2] /\ Range(new_beams[p[1]].neigh) = Range(new_beams[p[2]].neigh)}

C28_DistinctNodeSets ==
    \A new_beams \in EmittedBeamSets : SameNodeSets(new_beams) = {}

(***************************************************************************)
(* C28 as the code has it: no two beams of a beam set a worker emits have  *)
(* the same neighborhood sequence.  Two of them can hold the same nodes,   *)
(* added in a different order (C28_Witness).                               *)
(***************************************************************************)
C28_DistinctNeighSequences ==
    \A new_beams \in EmittedBeamSets :
        \A i, j \in 1..Len(new_beams) :
            i # j => /\ new_beams[i].neigh # new_beams[j].neigh
                     /\ new_beams[i].neigh[1] = new_beams[j].neigh[1]
                     /\ new_beams[i].graph_idx = new_beams[j].graph_idx

\* A grow call with n_beams = 2 returned two beams of three nodes that hold
\* the same nodes in different order.
C28_Witness ==
    /\ call.fn = "grow"
    /\ call.returned
    /\ args.n_beams = 2
    /\ Len(call.new_beams) = 2
    /\ Len(call.new_beams[1].neigh) = 3
    /\ SameNodeSets(call.new_beams) # {}
    /\ call.new_beams[1].neigh # call.new_beams[2].neigh

(***************************************************************************)
(* C30 as stated: the batches read_embeddings_batched returns are          *)
(* consecutive slices of prog_indices, in order, that cover it once, and   *)
(* none holds more than batch_size programs.                               *)
(***************************************************************************)
\* The programs before batch k.
BatchStart(k) == SumSeq(SubSeq(call.lens, 1, k - 1))

BatchesPartition ==
    /\ call.raised = "none"
    /\ Len(call.embs) = Len(call.lens)
    /\ SumSeq(call.lens) = Len(call.prog_indices)
    /\ \A k \in 1..Len(call.embs) :
          /\ call.lens[k] >= 1
          /\ call.embs[k] =
                 torch_cat(read_embeddings(SubSeq(call.prog_indices, BatchStart(k) + 1,
                                                  BatchStart(k) + call.lens[k])))

C30_BatchesWithinBatchSize ==
    (call.fn = "read_embeddings_batched" /\ call.returned)
        => /\ BatchesPartition
           /\ \A k \in 1..Len(call.lens) : call.lens[k] <= args.batch_size

\* What the code does: the batches partition prog_indices in order; the
\* first batch is closed at index batch_size and holds batch_size + 1
\* programs whenever there are that many, the later ones hold batch_size.
C30_FirstBatchOneMore ==
    (call.fn = "read_embeddings_batched" /\ call.returned)
        => /\ BatchesPartition
           /\ \A k \in 1..Len(call.lens) :
                 call.lens[k] <= IF k = 1 THEN args.batch_size + 1 ELSE args.batch_size
           /\ Len(call.prog_indices) > args.batch_size
                 => call.lens[1] = args.batch_size + 1

\* A call with batch_size 1 and three programs returned a first batch of
\* two programs and a second of one.
C30_Witness ==
    /\ call.fn = "read_embeddings_batched"
    /\ call.returned
    /\ args.batch_size = 1
    /\ call.lens = <<2, 1>>

====
